---- MODULE Spec2Model ----
(***************************************************************************)
(* recipe-measures: exact-rational measures, magnitudes and the measure    *)
(* parser.  Numbers are Rational32 (a ratio of two i32), so every          *)
(* multiplication and addition below keeps the 32-bit width: an operation  *)
(* returns the wrapped result together with a flag telling whether the     *)
(* exact result left the i32 range.  A build with overflow checks panics   *)
(* on the flag, a build without them continues with the wrapped value.     *)
(***************************************************************************)
EXTENDS Integers, Sequences, FiniteSets, TLC

VARIABLES build, origin, cur, dims, hops, cmp, input, call, ret

vars == <<build, origin, cur, dims, hops, cmp, input, call, ret>>

(***************************************************************************)
(* Bounds of the model.                                                    *)
(***************************************************************************)
MaxNumer == 2
MaxHops == 2
MaxLen == 3
MaxText == 3
MaxCursor == 2
MaxGood == 8

(***************************************************************************)
(* i32 arithmetic.                                                         *)
(***************************************************************************)
MaxI32 == 2147483647
MinI32 == (-MaxI32) - 1

Builds == {"debug", "release"}

Abs(a) == IF a < 0 THEN -a ELSE a

\* a + b modulo 2^32, as an i32
WrapAdd(a, b) ==
    IF a > 0 /\ b > MaxI32 - a THEN ((a - MaxI32) - 1) + ((b - MaxI32) - 1)
    ELSE IF a < 0 /\ b < MinI32 - a THEN ((a + MaxI32) + 1) + ((b + MaxI32) + 1)
    ELSE a + b

AddFits(a, b) ==
    ~ (a > 0 /\ b > MaxI32 - a) /\ ~ (a < 0 /\ b < MinI32 - a)

WrapNeg(a) == IF a = MinI32 THEN MinI32 ELSE -a

\* byte k (0 the lowest) of the two's complement form of a
Byte(a, k) ==
    CASE k = 0 -> a % 256
      [] k = 1 -> (a \div 256) % 256
      [] k = 2 -> (a \div 65536) % 256
      [] k = 3 -> (a \div 16777216) % 256

\* a * b modulo 2^32, as an i32: schoolbook product of the low four bytes
WrapMul(a, b) ==
    LET s0 == Byte(a, 0) * Byte(b, 0)
        s1 == Byte(a, 0) * Byte(b, 1) + Byte(a, 1) * Byte(b, 0)
        s2 == Byte(a, 0) * Byte(b, 2) + Byte(a, 1) * Byte(b, 1)
                + Byte(a, 2) * Byte(b, 0)
        s3 == Byte(a, 0) * Byte(b, 3) + Byte(a, 1) * Byte(b, 2)
                + Byte(a, 2) * Byte(b, 1) + Byte(a, 3) * Byte(b, 0)
        t1 == s1 + (s0 \div 256)
        t2 == s2 + (t1 \div 256)
        t3 == s3 + (t2 \div 256)
        r3 == t3 % 256
    IN  (IF r3 >= 128 THEN r3 - 256 ELSE r3) * 16777216
          + (t2 % 256) * 65536 + (t1 % 256) * 256 + (s0 % 256)

\* the exact product a * b is an i32
MulFits(a, b) ==
    \/ a = 0
    \/ b = 0
    \/ /\ a # MinI32
       /\ b # MinI32
       /\ LET x == Abs(a)
              y == Abs(b)
              q == MaxI32 \div y
          IN  \/ x <= q
              \/ /\ (a < 0) # (b < 0)
                 /\ x = q + 1
                 /\ MaxI32 % y = y - 1
    \/ a = MinI32 /\ b = 1
    \/ b = MinI32 /\ a = 1

RECURSIVE GcdNat(_, _)
GcdNat(a, b) == IF b = 0 THEN a ELSE GcdNat(b, a % b)

\* num_integer::Integer::gcd, for operands other than i32::MIN
Gcd(a, b) == GcdNat(Abs(a), Abs(b))

(***************************************************************************)
(* Rational32.  A value is [numer, denom]; a computed value also carries   *)
(* ovf (some step left the i32 range) and panic (Ratio::new saw a zero     *)
(* denominator, which panics in every build).                              *)
(***************************************************************************)
Rat(n, d) == [numer |-> n, denom |-> d, ovf |-> FALSE, panic |-> FALSE]

Plain(r) == [numer |-> r.numer, denom |-> r.denom]

\* Ratio::new(numer, denom): reduce to lowest terms, denominator positive
RatioNew(n, d, o) ==
    IF d = 0 THEN [numer |-> 0, denom |-> 0, ovf |-> o, panic |-> TRUE]
    ELSE IF n = 0 THEN [numer |-> 0, denom |-> 1, ovf |-> o, panic |-> FALSE]
    ELSE IF n = d THEN [numer |-> 1, denom |-> 1, ovf |-> o, panic |-> FALSE]
    ELSE LET g == Gcd(n, d)
             rn == n \div g
             rd == d \div g
         IN  IF rd < 0
             THEN [numer |-> WrapNeg(rn), denom |-> WrapNeg(rd),
                   ovf |-> o \/ rn = MinI32 \/ rd = MinI32, panic |-> FALSE]
             ELSE [numer |-> rn, denom |-> rd, ovf |-> o, panic |-> FALSE]

\* Ratio::from((n, d)) of a literal pair
Ratio(n, d) == Plain(RatioNew(n, d, FALSE))

\* impl Mul for Ratio<i32>: cross-reduce, multiply, Ratio::new
RMul(a, b) ==
    LET gcd_ad == Gcd(a.numer, b.denom)
        gcd_bc == Gcd(a.denom, b.numer)
        x == a.numer \div gcd_ad
        y == b.numer \div gcd_bc
        u == a.denom \div gcd_bc
        v == b.denom \div gcd_ad
    IN  RatioNew(WrapMul(x, y), WrapMul(u, v),
                 ~ MulFits(x, y) \/ ~ MulFits(u, v))

\* impl Div for Ratio<i32>
RDiv(a, b) ==
    LET gcd_ac == Gcd(a.numer, b.numer)
        gcd_bd == Gcd(a.denom, b.denom)
    IN  IF gcd_ac = 0
        THEN [numer |-> 0, denom |-> 0, ovf |-> FALSE, panic |-> TRUE]
        ELSE LET x == a.numer \div gcd_ac
                 y == b.denom \div gcd_bd
                 u == a.denom \div gcd_bd
                 v == b.numer \div gcd_ac
             IN  RatioNew(WrapMul(x, y), WrapMul(u, v),
                          ~ MulFits(x, y) \/ ~ MulFits(u, v))

\* impl Add for Ratio<i32>
RAdd(a, b) ==
    IF a.denom = b.denom
    THEN RatioNew(WrapAdd(a.numer, b.numer), b.denom,
                  ~ AddFits(a.numer, b.numer))
    ELSE LET g == Gcd(a.denom, b.denom)
             la == b.denom \div g
             lb == a.denom \div g
             lcm == WrapMul(a.denom, la)
             ln == WrapMul(a.numer, la)
             rn == WrapMul(b.numer, lb)
         IN  RatioNew(WrapAdd(ln, rn), lcm,
                      \/ ~ MulFits(a.denom, la)
                      \/ ~ MulFits(a.numer, la)
                      \/ ~ MulFits(b.numer, lb)
                      \/ ~ AddFits(ln, rn))

\* carry the flags of an operand into a result
After(a, r) ==
    [numer |-> r.numer, denom |-> r.denom,
     ovf |-> a.ovf \/ r.ovf, panic |-> a.panic \/ r.panic]

(***************************************************************************)
(* Dimensions and units.                                                   *)
(***************************************************************************)
VolumeUnits ==
    <<"Drop", "Smidgen", "Pinch", "Dash", "Teaspoon", "Tablespoon", "Cup",
      "Pint", "Quart", "Gallon">>

TemperatureUnits == <<"Fahrenheit", "Celsius">>

VolumeUnit(u) == [variant |-> "Volume", unit |-> u]
TemperatureUnit(u) == [variant |-> "Temperature", unit |-> u]
\* Unitless::new(name)
Unitless(name) == [variant |-> "Unitless", unit |-> name]

\* the table with the temperature units ahead of the volume units
UNITFUL_UNITSTemperatureFirst ==
    [i \in 1..Len(TemperatureUnits) |-> TemperatureUnit(TemperatureUnits[i])]
      \o [i \in 1..Len(VolumeUnits) |-> VolumeUnit(VolumeUnits[i])]

\* UNITFUL_UNITS: the volume units followed by the temperature units
UNITFUL_UNITS ==
    [i \in 1..Len(VolumeUnits) |-> VolumeUnit(VolumeUnits[i])]
      \o [i \in 1..Len(TemperatureUnits) |-> TemperatureUnit(TemperatureUnits[i])]

VolumeMultipleWrong(u) ==
    CASE u = "Drop" -> 1
      [] u = "Smidgen" -> 3
      [] u = "Pinch" -> 6
      [] u = "Dash" -> 12
      [] u = "Teaspoon" -> 96
      [] u = "Tablespoon" -> 288
      [] u = "Cup" -> 4800
      [] u = "Pint" -> 9216
      [] u = "Quart" -> 18432
      [] u = "Gallon" -> 73728

VolumeMultiple(u) ==
    CASE u = "Drop" -> 1
      [] u = "Smidgen" -> 3
      [] u = "Pinch" -> 6
      [] u = "Dash" -> 12
      [] u = "Teaspoon" -> 96
      [] u = "Tablespoon" -> 288
      [] u = "Cup" -> 4608
      [] u = "Pint" -> 9216
      [] u = "Quart" -> 18432
      [] u = "Gallon" -> 73728

\* UnitLike::multiple
multiple(unit) ==
    CASE unit.variant = "Volume" -> Rat(VolumeMultiple(unit.unit), 1)
      [] unit.variant = "Temperature" -> Rat(1, 1)
      [] unit.variant = "Unitless" -> Rat(1, 1)

\* UnitLike::dimension
dimension(unit) == unit.variant

\* UnitLike::value_to_base
value_to_base(unit, value) == RMul(value, multiple(unit))

\* UnitLike::value_from_base
value_from_base(unit, base_value) == RDiv(base_value, multiple(unit))

(***************************************************************************)
(* Measures and magnitudes.                                                *)
(***************************************************************************)
Panicked == [kind |-> "panic"]

\* whether the build panics on a computed rational: always on a zero
\* denominator, on overflow when overflow checks are on
Panics(r) == r.panic \/ (r.ovf /\ build = "debug")

\* Measure::single / SingleMeasure::new
SingleMeasure(value, unit) == [kind |-> "single", value |-> value, unit |-> unit]

\* Magnitude::single
MagnitudeSingle(base_value, dim) ==
    [kind |-> "magnitude", base_value |-> base_value, dimension |-> dim]

\* SingleMeasure::base_value
base_value(m) == value_to_base(m.unit, Rat(m.value.numer, m.value.denom))

\* MeasureLike::magnitude for SingleMeasure
magnitude(m) ==
    LET base == base_value(m)
    IN  IF Panics(base) THEN Panicked
        ELSE MagnitudeSingle(Plain(base), dimension(m.unit))

\* SingleMeasure::from_base
from_base(base, unit) ==
    LET value == value_from_base(unit, Rat(base.numer, base.denom))
    IN  IF Panics(value) THEN Panicked
        ELSE SingleMeasure(Plain(value), unit)

\* RangeMeasure::new
RangeMeasure(from, to) == [kind |-> "range", from |-> from, to |-> to]

\* RangeMeasure::from_base
range_from_base(from_base_value, from_unit, to_base_value, to_unit) ==
    LET from_value == value_from_base(from_unit,
                                      Rat(from_base_value.numer, from_base_value.denom))
        to_value == value_from_base(to_unit,
                                    Rat(to_base_value.numer, to_base_value.denom))
    IN  IF Panics(from_value) \/ Panics(to_value) THEN Panicked
        ELSE RangeMeasure(SingleMeasure(Plain(from_value), from_unit),
                          SingleMeasure(Plain(to_value), to_unit))

\* Magnitude::measure: the dimension of the magnitude is not consulted
measure(mag, unit) ==
    IF mag.kind = "range"
    THEN range_from_base(mag.from_base_value, unit, mag.to_base_value, unit)
    ELSE from_base(mag.base_value, unit)

\* derived PartialEq of Magnitude over Ratio's PartialEq
MagnitudeEq(a, b) ==
    /\ a.dimension = b.dimension
    /\ a.base_value.numer = b.base_value.numer
    /\ a.base_value.denom = b.base_value.denom

(***************************************************************************)
(* Exact natural-number arithmetic on little-endian decimal digit          *)
(* sequences, the yardstick the i32 results are compared with.             *)
(***************************************************************************)
RECURSIVE ToBig(_)
ToBig(n) == IF n = 0 THEN <<>> ELSE <<n % 10>> \o ToBig(n \div 10)

RECURSIVE BigNorm(_)
BigNorm(s) ==
    IF s = <<>> THEN <<>>
    ELSE IF s[Len(s)] = 0 THEN BigNorm(SubSeq(s, 1, Len(s) - 1))
    ELSE s

RECURSIVE BigAddC(_, _, _)
BigAddC(a, b, c) ==
    IF a = <<>> /\ b = <<>> THEN (IF c = 0 THEN <<>> ELSE <<c>>)
    ELSE LET x == IF a = <<>> THEN 0 ELSE a[1]
             y == IF b = <<>> THEN 0 ELSE b[1]
             t == x + y + c
         IN  <<t % 10>> \o BigAddC(IF a = <<>> THEN <<>> ELSE Tail(a),
                                   IF b = <<>> THEN <<>> ELSE Tail(b),
                                   t \div 10)

BigAdd(a, b) == BigNorm(BigAddC(a, b, 0))

RECURSIVE BigMulDigit(_, _, _)
BigMulDigit(a, k, c) ==
    IF a = <<>> THEN ToBig(c)
    ELSE LET t == a[1] * k + c
         IN  <<t % 10>> \o BigMulDigit(Tail(a), k, t \div 10)

RECURSIVE BigMul(_, _)
BigMul(a, b) ==
    IF b = <<>> THEN <<>>
    ELSE BigAdd(BigMulDigit(a, b[1], 0), BigNorm(<<0>> \o BigMul(a, Tail(b))))

(***************************************************************************)
(* The conversion machine: a single measure is built, turned into its      *)
(* magnitude, rendered in some unit, turned into a magnitude again ...;    *)
(* the magnitude of the original measure can be compared with the          *)
(* magnitude of another single measure.                                    *)
(***************************************************************************)
Denoms == {1, 2, 3, 4, 8, 16, 32, 96}

SmallValues == {Ratio(p, q) : p \in 1..MaxNumer, q \in Denoms}

BigValues == {Ratio(30000, 1), Ratio(524289, 1), Ratio(1, 30000)}

Values == SmallValues \cup BigValues

Units ==
    {UNITFUL_UNITS[i] : i \in 1..Len(UNITFUL_UNITS)}
      \cup {Unitless("cloves"), Unitless("times")}

Idle == [op |-> "idle"]

NoCmp == [kind |-> "none"]

InitMeasure ==
    /\ build \in Builds
    /\ origin \in {SingleMeasure(x, u) : x \in Values, u \in Units}
    /\ cur = origin
    /\ dims = {dimension(origin.unit)}
    /\ hops = 0
    /\ cmp = NoCmp
    /\ input = Idle
    /\ call = Idle
    /\ ret = Idle

\* measure.magnitude()
Magnitude ==
    /\ cur.kind = "single"
    /\ cur' = magnitude(cur)
    /\ cmp' = NoCmp
    /\ UNCHANGED <<build, origin, dims, hops, input, call, ret>>

\* magnitude.measure(unit)
Measure(unit) ==
    /\ cur.kind = "magnitude"
    /\ cmp = NoCmp
    /\ hops < MaxHops
    /\ cur' = measure(cur, unit)
    /\ hops' = hops + 1
    /\ dims' = dims \cup {dimension(unit)}
    /\ cmp' = NoCmp
    /\ UNCHANGED <<build, origin, input, call, ret>>

\* origin.magnitude() == Measure::single(y, unit).magnitude()
MagnitudeEquals(y, unit) ==
    /\ cur.kind = "magnitude"
    /\ cmp = NoCmp
    /\ hops = 0
    /\ LET other == SingleMeasure(y, unit)
           m == magnitude(other)
       IN  cmp' = IF m.kind = "panic"
                  THEN [kind |-> "panic", other |-> other]
                  ELSE [kind |-> "eq", other |-> other,
                        equal |-> MagnitudeEq(cur, m)]
    /\ UNCHANGED <<build, origin, cur, dims, hops, input, call, ret>>

NextMeasure ==
    \/ Magnitude
    \/ \E unit \in Units : Measure(unit)
    \/ \E y \in Values, unit \in Units : MagnitudeEquals(y, unit)

SpecMeasure == InitMeasure /\ [][NextMeasure]_vars

(***************************************************************************)
(* Properties of the conversion machine.                                   *)
(***************************************************************************)

\* C1: a positive value x in unit U, taken to base and rendered again in U,
\* possibly through a rendering in another unit V of the same dimension, is
\* x exactly: no conversion inside one dimension fails, and every rendering
\* back in U has the original value.
ConversionRoundTrip ==
    (Cardinality(dims) = 1 /\ origin.value.numer > 0) =>
        /\ cur.kind # "panic"
        /\ (cur.kind = "single" /\ cur.unit = origin.unit)
              => cur.value = origin.value

\* x * multiple(U) = y * multiple(V) over the integers
ExactBaseEq(a, b) ==
    BigMul(BigMul(ToBig(a.value.numer), ToBig(multiple(a.unit).numer)),
           ToBig(b.value.denom))
      = BigMul(BigMul(ToBig(b.value.numer), ToBig(multiple(b.unit).numer)),
               ToBig(a.value.denom))

\* C2: the magnitudes of (x, U) and (y, V) are equal exactly when U and V
\* have the same dimension and x * multiple(U) = y * multiple(V).
MagnitudeEqualityIsBaseEquality ==
    cmp.kind = "eq" =>
        (cmp.equal <=> /\ dimension(origin.unit) = dimension(cmp.other.unit)
                       /\ ExactBaseEq(origin, cmp.other))

\* the chain of the volume table: 1 of the first unit is the given fraction
\* of the second
MultipleChain ==
    {<<"Drop", Ratio(1, 96), "Teaspoon">>,
     <<"Smidgen", Ratio(1, 32), "Teaspoon">>,
     <<"Pinch", Ratio(1, 16), "Teaspoon">>,
     <<"Dash", Ratio(1, 8), "Teaspoon">>,
     <<"Teaspoon", Ratio(1, 3), "Tablespoon">>,
     <<"Tablespoon", Ratio(1, 16), "Cup">>,
     <<"Cup", Ratio(1, 2), "Pint">>,
     <<"Pint", Ratio(1, 2), "Quart">>,
     <<"Quart", Ratio(1, 4), "Gallon">>}

IsLink(l) ==
    /\ origin = SingleMeasure(Ratio(1, 1), VolumeUnit(l[1]))
    /\ cmp.kind # "none"
    /\ cmp.other = SingleMeasure(l[2], VolumeUnit(l[3]))

\* C3: every link of the volume chain holds as an equality of magnitudes.
VolumeMultipleChain ==
    \A l \in MultipleChain : IsLink(l) => (cmp.kind = "eq" /\ cmp.equal)

VolumeMultipleChainWitness ==
    /\ IsLink(<<"Tablespoon", Ratio(1, 16), "Cup">>)
    /\ cmp.kind = "eq"
    /\ cmp.equal

(***************************************************************************)
(* Text.  A str is a sequence of chars, a char is its code point; byte     *)
(* offsets are offsets into the UTF-8 encoding.                            *)
(***************************************************************************)
\* char::len_utf8
len_utf8(c) ==
    IF c < 128 THEN 1 ELSE IF c < 2048 THEN 2 ELSE IF c < 65536 THEN 3 ELSE 4

RECURSIVE ByteLen(_)
\* str::len, in bytes
ByteLen(s) == IF s = <<>> THEN 0 ELSE len_utf8(Head(s)) + ByteLen(Tail(s))

\* str::char_indices().map(|(i, _)| i): the byte offset of every char
char_indices(s) == [i \in 1..Len(s) |-> ByteLen(SubSeq(s, 1, i - 1))]

Some(v) == [some |-> TRUE, v |-> v]
None == [some |-> FALSE]

\* Iterator::nth on the offsets, from iterator position pos (items taken so
\* far); an exhausted iterator stays exhausted
nth(items, pos, n) ==
    IF pos + n + 1 <= Len(items)
    THEN [item |-> Some(items[pos + n + 1]), pos |-> pos + n + 1]
    ELSE [item |-> None, pos |-> Len(items)]

\* &s[start..end] by byte offsets; panics off a char boundary
ByteSlice(s, start, end) ==
    LET bounds == {ByteLen(SubSeq(s, 1, i)) : i \in 0..Len(s)}
    IN  IF start > end \/ start \notin bounds \/ end \notin bounds
        THEN [panic |-> TRUE]
        ELSE [panic |-> FALSE,
              v |-> SubSeq(s,
                           1 + Cardinality({b \in bounds : b < start}),
                           Cardinality({b \in bounds : b < end}))]

char_sliceTruncating(s, start, end) ==
    IF start < end
    THEN IF start < Len(s)
         THEN Some(SubSeq(s, start + 1, IF end < Len(s) THEN end ELSE Len(s)))
         ELSE None
    ELSE Some(<<>>)

\* CharIndexing::char_slice for &str
char_slice(s, start, end) ==
    IF start < end
    THEN LET iter == char_indices(s)
             byte_start == nth(iter, 0, start)
             byte_end == nth(iter, byte_start.pos, (end - start) - 1)
         IN  IF byte_start.item.some /\ byte_end.item.some
             THEN LET sl == ByteSlice(s, byte_start.item.v, byte_end.item.v)
                  IN  IF sl.panic THEN [panic |-> TRUE] ELSE Some(sl.v)
             ELSE None
    ELSE Some(<<>>)

RECURSIVE find_char(_, _, _)
\* the find_map closure of char_index_for_byte over chars().enumerate():
\* i chars have been visited, byte_offset is what is left of the offset
find_char(s, i, byte_offset) ==
    IF i >= Len(s) THEN None
    ELSE IF byte_offset > 0
         THEN LET l == len_utf8(s[i + 1])
              IN  find_char(s, i + 1,
                            IF byte_offset >= l THEN byte_offset - l ELSE 0)
         ELSE Some(i)

RECURSIVE find_charFloor(_, _, _)
find_charFloor(s, i, byte_offset) ==
    IF i >= Len(s) THEN None
    ELSE LET l == len_utf8(s[i + 1])
         IN  IF byte_offset >= l
             THEN find_charFloor(s, i + 1, byte_offset - l)
             ELSE Some(i)

char_index_for_byteFloor(s, byte_offset) ==
    LET char_offset == find_charFloor(s, 0, byte_offset)
    IN  IF char_offset.some THEN char_offset.v ELSE Len(s)

char_index_for_byteNoEnd(s, byte_offset) ==
    LET char_offset == find_char(s, 0, byte_offset)
    IN  IF char_offset.some THEN char_offset.v ELSE 0

\* CharIndexing::char_index_for_byte for &str
char_index_for_byte(s, byte_offset) ==
    LET char_offset == find_char(s, 0, byte_offset)
    IN  IF char_offset.some THEN char_offset.v ELSE Len(s)

\* ParserInput::new
ParserInput(text, char_index) == [input |-> text, char_index |-> char_index]

(***************************************************************************)
(* The char-indexing functions applied to bounded strings.                 *)
(***************************************************************************)
\* '4', one byte; U+00BD, two bytes; U+2151, three bytes; U+1F600, four
CharAlphabet == {52, 189, 8529, 128512}

RECURSIVE StringsOver(_, _)
StringsOver(alphabet, n) ==
    IF n = 0 THEN {<<>>}
    ELSE LET shorter == StringsOver(alphabet, n - 1)
         IN  shorter \cup {Append(t, c) : t \in {u \in shorter : Len(u) = n - 1},
                                          c \in alphabet}

\* "456" U+2150 U+2159 U+2151 "45" of test_char_for_byte_index
TestString == <<52, 53, 54, 8528, 8537, 8529, 52, 53>>

CharStrings == StringsOver(CharAlphabet, MaxLen) \cup {TestString}

InitChars ==
    /\ build \in Builds
    /\ input \in {ParserInput(s, 0) : s \in CharStrings}
    /\ call = Idle
    /\ ret = Idle
    /\ origin = Idle
    /\ cur = Idle
    /\ dims = {}
    /\ hops = 0
    /\ cmp = NoCmp

\* input.char_slice(start..end)
CharSlice(start, end) ==
    /\ call = Idle
    /\ call' = [op |-> "char_slice", start |-> start, end |-> end]
    /\ ret' = char_slice(input.input, start, end)
    /\ UNCHANGED <<build, origin, cur, dims, hops, cmp, input>>

\* input.char_index_for_byte(byte_offset)
CharIndexForByte(byte_offset) ==
    /\ call = Idle
    /\ call' = [op |-> "char_index_for_byte", byte_offset |-> byte_offset]
    /\ ret' = char_index_for_byte(input.input, byte_offset)
    /\ UNCHANGED <<build, origin, cur, dims, hops, cmp, input>>

NextChars ==
    \/ \E start \in 0..(MaxLen + 1), end \in 0..(MaxLen + 2) :
          CharSlice(start, end)
    \/ \E byte_offset \in 0..(4 * MaxLen + 2) : CharIndexForByte(byte_offset)

SpecChars == InitChars /\ [][NextChars]_vars

\* C4: a non-empty char range a..b with b at most the number of chars of s
\* (b equal to that number included) yields exactly the chars a..b-1 of s.
CharSliceInRange ==
    (/\ call.op = "char_slice"
     /\ call.start < call.end
     /\ call.end <= Len(input.input))
        => ret = Some(SubSeq(input.input, call.start + 1, call.end))

\* C5: a non-empty char range whose end exceeds the number of chars yields
\* None, never a truncated slice or a panic.
CharSlicePastEndIsNone ==
    (/\ call.op = "char_slice"
     /\ call.start < call.end
     /\ call.end > Len(input.input))
        => ret = None

CharSlicePastEndWitness ==
    /\ call.op = "char_slice"
    /\ input.input = <<>>
    /\ call.start = 0
    /\ call.end = 1
    /\ ret = None

\* the 0-based index of the char in whose encoding byte offset b lies
\* strictly inside (after its first byte), or -1
CharContaining(s, b) ==
    LET inside == {i \in 1..Len(s) :
                      /\ ByteLen(SubSeq(s, 1, i - 1)) < b
                      /\ b < ByteLen(SubSeq(s, 1, i))}
    IN  IF inside = {} THEN -1 ELSE (CHOOSE i \in inside : TRUE) - 1

CharIndexCountsCharsStartingBelow ==
    call.op = "char_index_for_byte" =>
        /\ ret = Cardinality({i \in 1..Len(input.input) :
                                 char_indices(input.input)[i] < call.byte_offset})
        /\ input.input = TestString =>
              /\ call.byte_offset = 0 => ret = 0
              /\ call.byte_offset = 7 => ret = 5
              /\ call.byte_offset = 10 => ret = 6

CharIndexPastEndWitness ==
    /\ call.op = "char_index_for_byte"
    /\ input.input = TestString
    /\ call.byte_offset = 10
    /\ ret = 6

(***************************************************************************)
(* ParserInput and the nom primitives the measure parser is built from.    *)
(* A parse result is ok (rest, val), error (code) or panic.                *)
(***************************************************************************)
Ok(rest, val) == [kind |-> "ok", rest |-> rest, val |-> val]
Error(code) == [kind |-> "error", code |-> code]
Panic == [kind |-> "panic"]

\* a value returned by a call that did not panic
Returned(val) == [kind |-> "ok", val |-> val]

\* a computed rational as the closure's result: the build panics on an
\* overflow (overflow checks) or on a zero denominator (always)
Checked(rest, r) ==
    IF r.panic \/ (r.ovf /\ build = "debug") THEN Panic ELSE Ok(rest, Plain(r))

\* the char index advanced by the byte offset
char_indexBytes(i, byte_offset) == i.char_index + byte_offset

\* ParserInput::char_index
char_index(i, byte_offset) ==
    i.char_index + char_index_for_byte(i.input, byte_offset)

\* Slice<RangeFrom<usize>> for ParserInput
SliceFrom(i, start) ==
    ParserInput(ByteSlice(i.input, start, ByteLen(i.input)).v,
                char_index(i, start))

\* InputTake::take_split for ParserInput: <<suffix, prefix>>
take_split(i, count) ==
    <<ParserInput(ByteSlice(i.input, count, ByteLen(i.input)).v,
                  char_index(i, count)),
      ParserInput(ByteSlice(i.input, 0, count).v, i.char_index)>>

\* number of leading chars of s that lie in the set of chars
RECURSIVE LeadingCount(_, _)
LeadingCount(s, chars) ==
    IF s = <<>> \/ Head(s) \notin chars THEN 0
    ELSE 1 + LeadingCount(Tail(s), chars)

\* AsChar::is_dec_digit
DecDigits == 48..57
is_dec_digit(c) == c \in DecDigits
\* the chars of multispace0: space, tab, carriage return, line feed
Multispace == {32, 9, 13, 10}

\* split_at_position_complete, splitting at the first char outside chars
split_at_position_complete(i, chars) ==
    LET n == ByteLen(SubSeq(i.input, 1, LeadingCount(i.input, chars)))
        sp == take_split(i, n)
    IN  Ok(sp[1], sp[2])

\* split_at_position1_complete, splitting at the first char outside chars
split_at_position1_complete(i, chars, code) ==
    IF LeadingCount(i.input, chars) = 0 THEN Error(code)
    ELSE split_at_position_complete(i, chars)

multispace0(i) == split_at_position_complete(i, Multispace)

digit1(i) == split_at_position1_complete(i, DecDigits, "Digit")

\* nom::character::complete::char
char(c, i) ==
    IF i.input # <<>> /\ Head(i.input) = c
    THEN Ok(SliceFrom(i, len_utf8(c)), c)
    ELSE Error("Char")

\* nom::character::complete::one_of
one_of(list, i) ==
    IF i.input # <<>> /\ Head(i.input) \in list
    THEN Ok(SliceFrom(i, len_utf8(Head(i.input))), Head(i.input))
    ELSE Error("OneOf")

(***************************************************************************)
(* u32 values: hi is bit 31, lo the low 31 bits.                           *)
(***************************************************************************)
U32(hi, lo) == [hi |-> hi, lo |-> lo]

\* u32::checked_mul(10)
checked_mul10(v) ==
    IF v.hi = 1 \/ v.lo > 429496729 THEN None
    ELSE IF v.lo <= 214748364 THEN Some(U32(0, 10 * v.lo))
    ELSE Some(U32(1, 10 * (v.lo - 214748365) + 2))

\* u32::checked_add(d) for a digit d
checked_add(v, d) ==
    IF v.lo > MaxI32 - d
    THEN (IF v.hi = 1 THEN None ELSE Some(U32(1, (v.lo - (MaxI32 - d)) - 1)))
    ELSE Some(U32(v.hi, v.lo + d))

\* value.checked_mul(10).and_then(|v| v.checked_add(d))
push_digit(v, d) ==
    LET m == checked_mul10(v)
    IN  IF m.some THEN checked_add(m.v, d) ELSE None

\* the cast "as i32"
as_i32(v) == IF v.hi = 1 THEN (v.lo - MaxI32) - 1 ELSE v.lo

RECURSIVE u32_loop(_, _, _)
u32_loop(i, n, value) ==
    IF n = Len(i.input) THEN Ok(SliceFrom(i, ByteLen(i.input)), value)
    ELSE LET c == i.input[n + 1]
         IN  IF ~ is_dec_digit(c)
             THEN (IF n = 0 THEN Error("Digit")
                   ELSE Ok(SliceFrom(i, ByteLen(SubSeq(i.input, 1, n))), value))
             ELSE LET v == push_digit(value, c - 48)
                  IN  IF v.some THEN u32_loop(i, n + 1, v.v) ELSE Error("Digit")

\* nom::character::complete::u32
u32(i) == IF i.input = <<>> THEN Error("Digit") ELSE u32_loop(i, 0, U32(0, 0))

RECURSIVE parse_u32(_, _)
\* str::parse::<u32> of a string of digits
parse_u32(digits, value) ==
    IF digits = <<>> THEN Some(value)
    ELSE LET v == push_digit(value, Head(digits) - 48)
         IN  IF v.some THEN parse_u32(Tail(digits), v.v) ELSE None

RECURSIVE pow(_, _)
\* i32::pow: the wrapped power and whether it overflowed
pow(base, exp) ==
    IF exp = 0 THEN [v |-> 1, o |-> FALSE]
    ELSE LET q == pow(base, exp - 1)
         IN  [v |-> WrapMul(q.v, base), o |-> q.o \/ ~ MulFits(q.v, base)]

\* Rational32::from_integer
from_integer(n) == Rat(n, 1)

(***************************************************************************)
(* The numeric literal grammar.                                            *)
(***************************************************************************)
\* parse_integer
parse_integer(i) ==
    LET r == u32(i)
    IN  IF r.kind = "ok" THEN Ok(r.rest, Plain(from_integer(as_i32(r.val))))
        ELSE r

\* the separator of parse_decimal: tuple((multispace0, char('.'), multispace0))
decimal_point(i) ==
    LET c == char(46, multispace0(i).rest)
    IN  IF c.kind = "ok" THEN multispace0(c.rest) ELSE c

\* parse_decimal with digit0 for digit1: the fraction digits are optional
parse_decimalOptionalFraction(i) ==
    LET integer == u32(i)
    IN  IF integer.kind # "ok" THEN integer
        ELSE LET sep == decimal_point(integer.rest)
             IN  IF sep.kind # "ok" THEN sep
                 ELSE LET fraction == split_at_position_complete(sep.rest, DecDigits)
                      IN  IF fraction.kind # "ok" THEN fraction
                          ELSE LET parsed_fraction == parse_u32(fraction.val.input, U32(0, 0))
                                   p == pow(10, ByteLen(fraction.val.input))
                                   fraction_rational ==
                                       RatioNew(as_i32(parsed_fraction.v), p.v, p.o)
                               IN  IF ~ parsed_fraction.some THEN Error("MapRes")
                                   ELSE IF p.o /\ build = "debug" THEN Panic
                                   ELSE Checked(fraction.rest,
                                                After(fraction_rational,
                                                      RAdd(from_integer(as_i32(integer.val)),
                                                           fraction_rational)))

\* parse_decimal
parse_decimal(i) ==
    LET integer == u32(i)
    IN  IF integer.kind # "ok" THEN integer
        ELSE LET sep == decimal_point(integer.rest)
             IN  IF sep.kind # "ok" THEN sep
                 ELSE LET fraction == digit1(sep.rest)
                      IN  IF fraction.kind # "ok" THEN fraction
                          ELSE LET parsed_fraction == parse_u32(fraction.val.input, U32(0, 0))
                                   p == pow(10, ByteLen(fraction.val.input))
                                   fraction_rational ==
                                       RatioNew(as_i32(parsed_fraction.v), p.v, p.o)
                               IN  IF ~ parsed_fraction.some THEN Error("MapRes")
                                   ELSE IF p.o /\ build = "debug" THEN Panic
                                   ELSE Checked(fraction.rest,
                                                After(fraction_rational,
                                                      RAdd(from_integer(as_i32(integer.val)),
                                                           fraction_rational)))

\* the vulgar fraction glyphs of unicode_rational, in the order tried
UnicodeFractions ==
    <<<<188, 1, 4>>, <<189, 1, 2>>, <<190, 3, 4>>,
      <<8528, 1, 7>>, <<8529, 1, 9>>, <<8530, 1, 10>>,
      <<8531, 1, 3>>, <<8532, 2, 3>>,
      <<8533, 1, 5>>, <<8534, 2, 5>>, <<8535, 3, 5>>, <<8536, 4, 5>>,
      <<8537, 1, 6>>, <<8538, 5, 6>>,
      <<8539, 1, 8>>, <<8540, 3, 8>>, <<8541, 5, 8>>, <<8542, 7, 8>>>>

\* unicode_rational
unicode_rational(i) ==
    LET hits == {k \in 1..Len(UnicodeFractions) :
                    char(UnicodeFractions[k][1], i).kind = "ok"}
    IN  IF hits = {} THEN Error("Char")
        ELSE LET k == CHOOSE h \in hits : \A g \in hits : h <= g
             IN  Ok(char(UnicodeFractions[k][1], i).rest,
                    Ratio(UnicodeFractions[k][2], UnicodeFractions[k][3]))

\* the separator of ascii_rational: '/' or U+2044 between optional spaces
fraction_slash(i) ==
    LET c == one_of({47, 8260}, multispace0(i).rest)
    IN  IF c.kind = "ok" THEN multispace0(c.rest) ELSE c

\* ascii_rational
ascii_rational(i) ==
    LET numer == u32(i)
    IN  IF numer.kind # "ok" THEN numer
        ELSE LET sep == fraction_slash(numer.rest)
             IN  IF sep.kind # "ok" THEN sep
                 ELSE LET denom == u32(sep.rest)
                      IN  IF denom.kind # "ok" THEN denom
                          ELSE IF denom.val # U32(0, 0)
                          THEN Checked(denom.rest,
                                       RatioNew(as_i32(numer.val), as_i32(denom.val), FALSE))
                          ELSE Error("MapRes")

\* nom::branch::alt of two recognizers, given their results on the same
\* input: the second is tried only when the first ends in a recoverable error
alt(first, second) == IF first.kind = "error" THEN second ELSE first

\* simple_rational
simple_rational(i) == alt(ascii_rational(i), unicode_rational(i))

\* the closure of multi_rational, applied to the result of simple_rational
multi_rational_sum(integer, rational) ==
    IF rational.kind # "ok" THEN rational
    ELSE Checked(rational.rest,
                 RAdd(from_integer(as_i32(integer)),
                      Rat(rational.val.numer, rational.val.denom)))

\* multi_rational
multi_rational(i) ==
    LET integer == u32(i)
    IN  IF integer.kind # "ok" THEN integer
        ELSE multi_rational_sum(integer.val,
                                simple_rational(multispace0(integer.rest).rest))

\* parse_rational
parse_rational(i) == alt(multi_rational(i), simple_rational(i))

(***************************************************************************)
(* The numeric recognizers applied to bounded texts: every text of at most *)
(* MaxText chars over NumberAlphabet, and the literals of the crate's      *)
(* tests together with literals at the edge of the 32-bit range.           *)
(***************************************************************************)
\* '0' '1' '3' ' ' '.' '/' U+2044 U+00BE 'c'
NumberAlphabet == {48, 49, 51, 32, 46, 47, 8260, 190, 99}

\*   1 3/4
\*   1 3U+20444
\*   1 U+00BE
\*   1U+00BE
\*   13U+20444
\*   3 / 4
\*   0 . 2
\*   0.2
\*   1.012
\*   1.12
\*   0.2 cups
\*   3/4 cups
\*   1 cup
\*   2147483647
\*   3000000000
\*   4294967295
\*   4294967296
\*   0.2000000000
\*   1.0000000001
\*   1000000000 3/4
\*   007 1/2
LiteralTexts ==
    {
     <<49, 32, 51, 47, 52>>,
     <<49, 32, 51, 8260, 52>>,
     <<49, 32, 190>>,
     <<49, 190>>,
     <<49, 51, 8260, 52>>,
     <<51, 32, 47, 32, 52>>,
     <<48, 32, 46, 32, 50>>,
     <<48, 46, 50>>,
     <<49, 46, 48, 49, 50>>,
     <<49, 46, 49, 50>>,
     <<48, 46, 50, 32, 99, 117, 112, 115>>,
     <<51, 47, 52, 32, 99, 117, 112, 115>>,
     <<49, 32, 99, 117, 112>>,
     <<50, 49, 52, 55, 52, 56, 51, 54, 52, 55>>,
     <<51, 48, 48, 48, 48, 48, 48, 48, 48, 48>>,
     <<52, 50, 57, 52, 57, 54, 55, 50, 57, 53>>,
     <<52, 50, 57, 52, 57, 54, 55, 50, 57, 54>>,
     <<48, 46, 50, 48, 48, 48, 48, 48, 48, 48, 48, 48>>,
     <<49, 46, 48, 48, 48, 48, 48, 48, 48, 48, 48, 49>>,
     <<49, 48, 48, 48, 48, 48, 48, 48, 48, 48, 32, 51, 47, 52>>,
     <<48, 48, 55, 32, 49, 47, 50>>
    }

NumberTexts == StringsOver(NumberAlphabet, MaxText) \cup LiteralTexts

InitNumbers ==
    /\ build \in Builds
    /\ input \in {ParserInput(s, 0) : s \in NumberTexts}
    /\ call = Idle
    /\ ret = Idle
    /\ origin = Idle
    /\ cur = Idle
    /\ dims = {}
    /\ hops = 0
    /\ cmp = NoCmp

ParseInteger ==
    /\ call = Idle
    /\ call' = [op |-> "parse_integer"]
    /\ ret' = parse_integer(input)
    /\ UNCHANGED <<build, origin, cur, dims, hops, cmp, input>>

ParseDecimal ==
    /\ call = Idle
    /\ call' = [op |-> "parse_decimal"]
    /\ ret' = parse_decimal(input)
    /\ UNCHANGED <<build, origin, cur, dims, hops, cmp, input>>

ParseRational ==
    /\ call = Idle
    /\ call' = [op |-> "parse_rational"]
    /\ ret' = parse_rational(input)
    /\ UNCHANGED <<build, origin, cur, dims, hops, cmp, input>>

NextNumbers ==
    \/ ParseInteger
    \/ ParseDecimal
    \/ ParseRational

SpecNumbers == InitNumbers /\ [][NextNumbers]_vars

(***************************************************************************)
(* Properties of the numeric recognizers.  The expected values are exact:  *)
(* they are computed on decimal digit sequences.                           *)
(***************************************************************************)
Reverse(s) == [k \in 1..Len(s) |-> s[Len(s) + 1 - k]]

\* the natural number written by a string of digit chars
BigOfDigits(ds) == BigNorm([k \in 1..Len(ds) |-> ds[Len(ds) + 1 - k] - 48])

LeadingDigits(s) == SubSeq(s, 1, LeadingCount(s, DecDigits))

SkipSpace(s) == SubSeq(s, LeadingCount(s, Multispace) + 1, Len(s))

\* C8: on a text that begins with digits, an accepted integer is the
\* non-negative integer written by the maximal leading digit run, over 1.
IntegerIsDigitRunValue ==
    (/\ call.op = "parse_integer"
     /\ LeadingDigits(input.input) # <<>>
     /\ ret.kind = "ok")
        => /\ ret.val.denom = 1
           /\ ret.val.numer >= 0
           /\ ToBig(ret.val.numer) = BigOfDigits(LeadingDigits(input.input))

RECURSIVE DivBE(_, _, _)
DivBE(be, k, r) ==
    IF be = <<>> THEN <<>>
    ELSE LET c == r * 10 + Head(be)
         IN  <<c \div k>> \o DivBE(Tail(be), k, c % k)

BigDiv(a, k) == BigNorm(Reverse(DivBE(Reverse(a), k, 0)))

BigDivides(k, a) == a # <<>> /\ a[1] % k = 0

RECURSIVE BigCancel(_, _, _)
\* cancel the common factors k (2 or 5) of n and a power of ten d
BigCancel(n, d, k) ==
    IF BigDivides(k, n) /\ d # <<1>> /\ BigDivides(k, IF d[1] = 0 THEN <<0>> ELSE d)
    THEN BigCancel(BigDiv(n, k), BigDiv(d, k), k)
    ELSE <<n, d>>

\* int + frac / 10^Len(frac) in lowest terms, for digit strings int, frac
ExactDecimal(int, frac) ==
    LET n == BigOfDigits(int \o frac)
        d == [k \in 1..(Len(frac) + 1) |-> IF k = Len(frac) + 1 THEN 1 ELSE 0]
    IN  IF n = <<>> THEN <<n, <<1>>>>
        ELSE LET by2 == BigCancel(n, d, 2)
             IN  BigCancel(by2[1], by2[2], 5)

\* the text begins <digits> <space>* '.' <space>* <digits>
DecimalShape(s) ==
    LET int == LeadingDigits(s)
        t == SkipSpace(SubSeq(s, Len(int) + 1, Len(s)))
        u == IF t # <<>> /\ Head(t) = 46 THEN SkipSpace(Tail(t)) ELSE <<>>
    IN  [match |-> int # <<>> /\ LeadingDigits(u) # <<>>,
         int |-> int, frac |-> LeadingDigits(u)]

\* C9: on <integer> <space>* '.' <space>* <digits> the decimal recognizer
\* yields integer + digits / 10^len(digits) in lowest terms, whatever the
\* number of digits.
DecimalIsExact ==
    (call.op = "parse_decimal" /\ DecimalShape(input.input).match) =>
        LET sh == DecimalShape(input.input)
            e == ExactDecimal(sh.int, sh.frac)
        IN  /\ ret.kind = "ok"
            /\ ret.val.numer >= 0
            /\ ret.val.denom > 0
            /\ ToBig(ret.val.numer) = e[1]
            /\ ToBig(ret.val.denom) = e[2]

\* the text begins <digits> <space>* <simple fraction>
MixedShape(s) ==
    LET int == LeadingDigits(s)
        f == simple_rational(
                 ParserInput(SkipSpace(SubSeq(s, Len(int) + 1, Len(s))), 0))
    IN  [match |-> int # <<>> /\ f.kind = "ok" /\ f.val.numer >= 0,
         int |-> int, f |-> f]

\* C10: on an integer n, optional whitespace and a simple fraction f the
\* rational recognizer yields n + f; "1 3/4", "1 3(U+2044)4" and
\* "1 (U+00BE)" give 7/4 and "13(U+2044)4" is the one fraction 13/4.
MixedNumberIsSum ==
    call.op = "parse_rational" =>
        /\ MixedShape(input.input).match =>
              LET sh == MixedShape(input.input)
              IN  /\ ret.kind = "ok"
                  /\ ret.val.numer >= 0
                  /\ ret.val.denom = sh.f.val.denom
                  /\ ToBig(ret.val.numer)
                        = BigAdd(BigMul(BigOfDigits(sh.int), ToBig(sh.f.val.denom)),
                                 ToBig(sh.f.val.numer))
        /\ input.input \in {<<49, 32, 51, 47, 52>>, <<49, 32, 51, 8260, 52>>,
                            <<49, 32, 190>>}
              => (ret.kind = "ok" /\ ret.val = Ratio(7, 4))
        /\ input.input = <<49, 51, 8260, 52>>
              => (ret.kind = "ok" /\ ret.val = Ratio(13, 4))

\* the text begins <digits> <space>* ('/' or U+2044) <space>* <digits> and
\* the second digit run is a zero
ZeroDenominatorShape(i) ==
    LET numer == u32(i)
    IN  /\ numer.kind = "ok"
        /\ fraction_slash(numer.rest).kind = "ok"
        /\ LET denom == u32(fraction_slash(numer.rest).rest)
           IN  denom.kind = "ok" /\ denom.val = U32(0, 0)

\* C11: a rational literal with a zero denominator ("1/0", "1(U+2044)0")
\* yields no value and ends in the explicit infinite-number error, a
\* terminal failure the caller can tell from an ordinary no-parse error.
ZeroDenominatorIsInfiniteNumber ==
    (call.op = "parse_rational" /\ ZeroDenominatorShape(input)) =>
        /\ ret.kind = "failure"
        /\ ret.code = "InfiniteNumber"

(***************************************************************************)
(* Unit resolution.  The aliases of a unit are its description, its plural *)
(* description, its additional aliases and its abbreviation, in this       *)
(* order.                                                                  *)
(***************************************************************************)
\* VolumeUnit::aliases
VolumeAliases(u) ==
    \* Drop: drop, drops, gt, gtt, dr
    CASE u = "Drop" ->
            <<<<100, 114, 111, 112>>,
              <<100, 114, 111, 112, 115>>,
              <<103, 116>>,
              <<103, 116, 116>>,
              <<100, 114>>>>
    \* Smidgen: smidgen, smidgens, smi, smdg
      [] u = "Smidgen" ->
            <<<<115, 109, 105, 100, 103, 101, 110>>,
              <<115, 109, 105, 100, 103, 101, 110, 115>>,
              <<115, 109, 105>>,
              <<115, 109, 100, 103>>>>
    \* Pinch: pinch, pinches, pn
      [] u = "Pinch" ->
            <<<<112, 105, 110, 99, 104>>,
              <<112, 105, 110, 99, 104, 101, 115>>,
              <<112, 110>>>>
    \* Dash: dash, dashes, ds
      [] u = "Dash" ->
            <<<<100, 97, 115, 104>>,
              <<100, 97, 115, 104, 101, 115>>,
              <<100, 115>>>>
    \* Teaspoon: teaspoon, teaspoons, t, tsp
      [] u = "Teaspoon" ->
            <<<<116, 101, 97, 115, 112, 111, 111, 110>>,
              <<116, 101, 97, 115, 112, 111, 111, 110, 115>>,
              <<116>>,
              <<116, 115, 112>>>>
    \* Tablespoon: tablespoon, tablespoons, Tb, T, tbsp
      [] u = "Tablespoon" ->
            <<<<116, 97, 98, 108, 101, 115, 112, 111, 111, 110>>,
              <<116, 97, 98, 108, 101, 115, 112, 111, 111, 110, 115>>,
              <<84, 98>>,
              <<84>>,
              <<116, 98, 115, 112>>>>
    \* Cup: cup, cups, c, C
      [] u = "Cup" ->
            <<<<99, 117, 112>>,
              <<99, 117, 112, 115>>,
              <<99>>,
              <<67>>>>
    \* Pint: pint, pints, pt
      [] u = "Pint" ->
            <<<<112, 105, 110, 116>>,
              <<112, 105, 110, 116, 115>>,
              <<112, 116>>>>
    \* Quart: quart, quarts, qt
      [] u = "Quart" ->
            <<<<113, 117, 97, 114, 116>>,
              <<113, 117, 97, 114, 116, 115>>,
              <<113, 116>>>>
    \* Gallon: gallon, gallons, gal
      [] u = "Gallon" ->
            <<<<103, 97, 108, 108, 111, 110>>,
              <<103, 97, 108, 108, 111, 110, 115>>,
              <<103, 97, 108>>>>

\* TemperatureUnit::aliases
TemperatureAliases(u) ==
    \* Fahrenheit: fahrenheit, fahrenheit, degrees, (U+00B0)F, F
    CASE u = "Fahrenheit" ->
            <<<<102, 97, 104, 114, 101, 110, 104, 101, 105, 116>>,
              <<102, 97, 104, 114, 101, 110, 104, 101, 105, 116>>,
              <<100, 101, 103, 114, 101, 101, 115>>,
              <<176, 70>>,
              <<70>>>>
    \* Celsius: celsius, celsius, (U+00B0)C, C
      [] u = "Celsius" ->
            <<<<99, 101, 108, 115, 105, 117, 115>>,
              <<99, 101, 108, 115, 105, 117, 115>>,
              <<176, 67>>,
              <<67>>>>

\* UnitLike::aliases
aliases(unit) ==
    CASE unit.variant = "Volume" -> VolumeAliases(unit.unit)
      [] unit.variant = "Temperature" -> TemperatureAliases(unit.unit)
      [] unit.variant = "Unitless" -> <<>>

\* char::to_lowercase on the chars that occur in words and aliases: the
\* ASCII capitals change, the other ASCII chars and U+00B0 do not
to_lowercase_char(c) == IF c \in 65..90 THEN c + 32 ELSE c

\* str::to_lowercase
to_lowercase(s) == [k \in 1..Len(s) |-> to_lowercase_char(s[k])]

\* AsChar::is_alpha for char: the ASCII letters
Alpha == (65..90) \cup (97..122)

\* nom::character::complete::alpha1
alpha1(i) == split_at_position1_complete(i, Alpha, "Alpha")

RECURSIVE scan_aliases(_, _, _, _)
\* the two loops of parse_unit from alias k of unit j on: an exact match
\* returns at once, a match up to case replaces the secondary match
scan_aliases(raw_unit, j, k, secondary) ==
    IF j > Len(UNITFUL_UNITS) THEN [exact |-> FALSE, secondary |-> secondary]
    ELSE IF k > Len(aliases(UNITFUL_UNITS[j]))
    THEN scan_aliases(raw_unit, j + 1, 1, secondary)
    ELSE IF raw_unit = aliases(UNITFUL_UNITS[j])[k]
    THEN [exact |-> TRUE, unit |-> UNITFUL_UNITS[j]]
    ELSE IF to_lowercase(raw_unit) = to_lowercase(aliases(UNITFUL_UNITS[j])[k])
    THEN scan_aliases(raw_unit, j, k + 1, Some(UNITFUL_UNITS[j]))
    ELSE scan_aliases(raw_unit, j, k + 1, secondary)

\* the resolver without the fallback to the secondary match
unwrap_or_unitlessNoSecondary(found, raw_unit) ==
    IF found.exact THEN found.unit ELSE Unitless(raw_unit)

\* secondary.unwrap_or(Unit::unitless(raw_unit.input.to_string()))
unwrap_or_unitless(found, raw_unit) ==
    IF found.exact THEN found.unit
    ELSE IF found.secondary.some THEN found.secondary.v
    ELSE Unitless(raw_unit)

\* the resolver scanning for the word folded to lower case
resolve_unitFolded(raw_unit) ==
    unwrap_or_unitless(scan_aliases(to_lowercase(raw_unit), 1, 1, None), raw_unit)

\* the resolver naming an unknown unit by the word folded to lower case
resolve_unitLowerName(raw_unit) ==
    unwrap_or_unitless(scan_aliases(raw_unit, 1, 1, None), to_lowercase(raw_unit))

\* the body of parse_unit after alpha1
resolve_unit(raw_unit) ==
    unwrap_or_unitless(scan_aliases(raw_unit, 1, 1, None), raw_unit)

\* parse_unit, given the result of alpha1
parse_unit_word(word) ==
    IF word.kind # "ok" THEN word
    ELSE Ok(word.rest, resolve_unit(word.val.input))

\* parse_unit
parse_unit(i) == parse_unit_word(alpha1(i))

(***************************************************************************)
(* The unit resolver applied to bounded texts: every text of at most       *)
(* MaxText chars over UnitAlphabet, every alias as written, in capitals    *)
(* and followed by more text, and words that are no alias.                 *)
(***************************************************************************)
\* 't' 'T' 'b' 'c' 'C' ' '
UnitAlphabet == {116, 84, 98, 99, 67, 32}

AllAliases ==
    UNION {{aliases(UNITFUL_UNITS[j])[k] : k \in 1..Len(aliases(UNITFUL_UNITS[j]))} :
              j \in 1..Len(UNITFUL_UNITS)}

to_uppercase(s) == [k \in 1..Len(s) |-> IF s[k] \in 97..122 THEN s[k] - 32 ELSE s[k]]

\* "cloves", "times", "Line", "C other", "cups of"
UnknownWords ==
    {<<99, 108, 111, 118, 101, 115>>, <<116, 105, 109, 101, 115>>,
     <<76, 105, 110, 101>>, <<67, 32, 111, 116, 104, 101, 114>>,
     <<99, 117, 112, 115, 32, 111, 102>>}

UnitTexts ==
    StringsOver(UnitAlphabet, MaxText) \cup AllAliases
      \cup {to_uppercase(a) : a \in AllAliases} \cup UnknownWords

InitUnits ==
    /\ build \in Builds
    /\ input \in {ParserInput(s, 0) : s \in UnitTexts}
    /\ call = Idle
    /\ ret = Idle
    /\ origin = Idle
    /\ cur = Idle
    /\ dims = {}
    /\ hops = 0
    /\ cmp = NoCmp

ParseUnit ==
    /\ call = Idle
    /\ call' = [op |-> "parse_unit"]
    /\ ret' = parse_unit(input)
    /\ UNCHANGED <<build, origin, cur, dims, hops, cmp, input>>

NextUnits == ParseUnit

SpecUnits == InitUnits /\ [][NextUnits]_vars

(***************************************************************************)
(* Properties of the unit resolver.                                        *)
(***************************************************************************)
\* the leading run of letters of a text
LeadingWord(s) == SubSeq(s, 1, LeadingCount(s, Alpha))

\* the places <<j, k>> of the unit table whose alias equals the word
ExactPlaces(word) ==
    {p \in (1..Len(UNITFUL_UNITS)) \X (1..5) :
        /\ p[2] <= Len(aliases(UNITFUL_UNITS[p[1]]))
        /\ aliases(UNITFUL_UNITS[p[1]])[p[2]] = word}

\* the places of the unit table whose alias equals the word up to case
FoldedPlaces(word) ==
    {p \in (1..Len(UNITFUL_UNITS)) \X (1..5) :
        /\ p[2] <= Len(aliases(UNITFUL_UNITS[p[1]]))
        /\ to_lowercase(aliases(UNITFUL_UNITS[p[1]])[p[2]]) = to_lowercase(word)}

\* p comes before q in the scan over the unit table
ScannedBefore(p, q) == p[1] < q[1] \/ (p[1] = q[1] /\ p[2] < q[2])

\* C13: a word that equals some alias exactly resolves to a unit owning an
\* exactly matching alias, also when an alias of another unit matched it up
\* to case earlier in the scan: "t" is Teaspoon and "T" is Tablespoon.
ExactAliasWins ==
    (call.op = "parse_unit" /\ ExactPlaces(LeadingWord(input.input)) # {}) =>
        /\ ret.kind = "ok"
        /\ \E p \in ExactPlaces(LeadingWord(input.input)) :
              ret.val = UNITFUL_UNITS[p[1]]
        /\ LeadingWord(input.input) = <<116>> => ret.val = VolumeUnit("Teaspoon")
        /\ LeadingWord(input.input) = <<84>> => ret.val = VolumeUnit("Tablespoon")

\* "T" resolved to Tablespoon although "t" of Teaspoon matched it up to case
\* earlier in the scan
ExactAliasWinsWitness ==
    /\ call.op = "parse_unit"
    /\ LeadingWord(input.input) = <<84>>
    /\ \E p \in FoldedPlaces(<<84>>), q \in ExactPlaces(<<84>>) :
          ScannedBefore(p, q) /\ UNITFUL_UNITS[p[1]] # UNITFUL_UNITS[q[1]]
    /\ ret.kind = "ok"
    /\ ret.val = VolumeUnit("Tablespoon")

UnknownWordIsUnitless ==
    (call.op = "parse_unit" /\ LeadingWord(input.input) # <<>>) =>
        /\ ret.kind = "ok"
        /\ ret.rest.input
              = SubSeq(input.input, Len(LeadingWord(input.input)) + 1,
                       Len(input.input))
        /\ FoldedPlaces(LeadingWord(input.input)) = {} =>
              /\ ret.val = Unitless(LeadingWord(input.input))
              /\ dimension(ret.val) = "Unitless"
              /\ multiple(ret.val) = Rat(1, 1)

\* "Line", no alias in any case, resolved to the unit named "Line"
UnknownWordIsUnitlessWitness ==
    /\ call.op = "parse_unit"
    /\ input.input = <<76, 105, 110, 101>>
    /\ FoldedPlaces(input.input) = {}
    /\ ret.kind = "ok"
    /\ ret.val = Unitless(<<76, 105, 110, 101>>)

(***************************************************************************)
(* parse_measure: a number, optional whitespace and a unit word, tried     *)
(* with the integer, the decimal and the rational recognizer in turn.      *)
(***************************************************************************)
\* ParserInput::range, in chars
range(i) == [start |-> i.char_index, end |-> i.char_index + Len(i.input)]

\* Slice<RangeTo<usize>> for ParserInput
SliceTo(i, end) == ParserInput(ByteSlice(i.input, 0, end).v, i.char_index)

\* Offset::offset for ParserInput, of a remainder of i
offset(i, remainder) == ByteLen(i.input) - ByteLen(remainder.input)

\* nom::combinator::consumed, given the recognizer's result r on i
consumed(i, r) ==
    IF r.kind # "ok" THEN r
    ELSE Ok(r.rest, [raw |-> SliceTo(i, offset(i, r.rest)), val |-> r.val])

\* the end of tuple((consumed(number), multispace0, consumed(parse_unit)))
number_unit_pair(number, unit) ==
    IF unit.kind # "ok" THEN unit
    ELSE Ok(unit.rest, [number |-> number, unit |-> unit.val])

\* consumed(parse_unit)
consumed_unit(i) == consumed(i, parse_unit(i))

\* tuple((consumed(number), multispace0, consumed(parse_unit))), given the
\* result of consumed(number)
number_unit(number) ==
    IF number.kind # "ok" THEN number
    ELSE number_unit_pair(number.val, consumed_unit(multispace0(number.rest).rest))

\* MeasureToken built by parse_measure
MeasureToken(m, number_range, unit_range, raw) ==
    [measure |-> m, number_range |-> number_range, unit_range |-> unit_range,
     raw |-> raw]

\* MeasureToken::full_range
full_range(token) ==
    [start |-> token.number_range.start, end |-> token.unit_range.end]

\* Option::expect on the result of char_slice
expect(slice) ==
    IF "panic" \in DOMAIN slice THEN Panic
    ELSE IF slice.some THEN Returned(slice.v)
    ELSE Panic

\* MeasureToken::number_text
number_text(token) ==
    expect(char_slice(token.raw, 0,
                      token.number_range.end - token.number_range.start))

\* MeasureToken::unit_text
unit_text(token) ==
    expect(char_slice(token.raw,
                      token.unit_range.start - token.number_range.start,
                      token.unit_range.end - token.number_range.start))

\* the body of parse_measure after the alternatives
measure_token(i, r) ==
    IF r.kind # "ok" THEN r
    ELSE Ok(r.rest,
            MeasureToken(SingleMeasure(r.val.number.val, r.val.unit.val),
                         range(r.val.number.raw), range(r.val.unit.raw),
                         ByteSlice(i.input, 0, offset(i, r.rest)).v))

\* parse_measure
parse_measure(i) ==
    measure_token(i,
        alt(number_unit(consumed(i, parse_integer(i))),
            alt(number_unit(consumed(i, parse_decimal(i))),
                number_unit(consumed(i, parse_rational(i))))))

(***************************************************************************)
(* parse_measure applied at a cursor of a document: every text of at most  *)
(* MaxText chars over TokenAlphabet, every number of TokenNumbers followed *)
(* by no, one or two spaces, a word of TokenWords and possibly more text,  *)
(* and the literals of the crate's tests with literals at the edge of the  *)
(* 32-bit range.  The cursor stands MaxCursor chars or less into the       *)
(* document.                                                               *)
(***************************************************************************)
\* '1' '.' ' ' 'c' U+00BE '/'
TokenAlphabet == {49, 46, 32, 99, 190, 47}

\* "1", "13", "1.5", "1 . 5", "3/4", "1 3/4", "(U+00BE)", "1 (U+00BE)", "1(U+00BE)", "1(U+2044)2"
TokenNumbers ==
    {
     <<49>>,
     <<49, 51>>,
     <<49, 46, 53>>,
     <<49, 32, 46, 32, 53>>,
     <<51, 47, 52>>,
     <<49, 32, 51, 47, 52>>,
     <<190>>,
     <<49, 32, 190>>,
     <<49, 190>>,
     <<49, 8260, 50>>
    }

\* "c", "T", "cups", "tsp", "cloves"
TokenWords ==
    {
     <<99>>,
     <<84>>,
     <<99, 117, 112, 115>>,
     <<116, 115, 112>>,
     <<99, 108, 111, 118, 101, 115>>
    }

\*   3. Line
\*   3.Line
\*   3 . Line
\*   1 (U+00BE) teaspoon other
\*   10 times
\*   0.2 cups
\*   1/0 c
\*   0.2000000000 c
\*   1000000000 3/4 c
\*   4294967296 c
\*   2 (U+00BE)(U+00BD) c
TokenLiterals ==
    {
     <<51, 46, 32, 76, 105, 110, 101>>,
     <<51, 46, 76, 105, 110, 101>>,
     <<51, 32, 46, 32, 76, 105, 110, 101>>,
     <<49, 32, 190, 32, 116, 101, 97, 115, 112, 111, 111, 110, 32, 111, 116, 104, 101, 114>>,
     <<49, 48, 32, 116, 105, 109, 101, 115>>,
     <<48, 46, 50, 32, 99, 117, 112, 115>>,
     <<49, 47, 48, 32, 99>>,
     <<48, 46, 50, 48, 48, 48, 48, 48, 48, 48, 48, 48, 32, 99>>,
     <<49, 48, 48, 48, 48, 48, 48, 48, 48, 48, 32, 51, 47, 52, 32, 99>>,
     <<52, 50, 57, 52, 57, 54, 55, 50, 57, 54, 32, 99>>,
     <<50, 32, 190, 189, 32, 99>>
    }

TokenTexts ==
    StringsOver(TokenAlphabet, MaxText) \cup TokenLiterals
      \cup {n \o sp \o w \o more :
               n \in TokenNumbers, sp \in {<<>>, <<32>>, <<32, 32>>},
               w \in TokenWords, more \in {<<>>, <<32, 120>>}}

InitTokens ==
    /\ build \in Builds
    /\ input \in {ParserInput(s, p) : s \in TokenTexts, p \in 0..MaxCursor}
    /\ call = Idle
    /\ ret = Idle
    /\ origin = Idle
    /\ cur = Idle
    /\ dims = {}
    /\ hops = 0
    /\ cmp = NoCmp

ParseMeasure ==
    /\ call = Idle
    /\ call' = [op |-> "parse_measure"]
    /\ ret' = parse_measure(input)
    /\ UNCHANGED <<build, origin, cur, dims, hops, cmp, input>>

\* token.number_text() of the token that parse_measure returned
NumberText ==
    /\ call.op = "parse_measure"
    /\ ret.kind = "ok"
    /\ call' = [op |-> "number_text"]
    /\ cur' = number_text(ret.val)
    /\ UNCHANGED <<build, origin, dims, hops, cmp, input, ret>>

\* token.unit_text() of the token that parse_measure returned
UnitText ==
    /\ call.op = "parse_measure"
    /\ ret.kind = "ok"
    /\ call' = [op |-> "unit_text"]
    /\ cur' = unit_text(ret.val)
    /\ UNCHANGED <<build, origin, dims, hops, cmp, input, ret>>

NextTokens ==
    \/ ParseMeasure
    \/ NumberText
    \/ UnitText

SpecTokens == InitTokens /\ [][NextTokens]_vars

(***************************************************************************)
(* Properties of parse_measure.                                            *)
(***************************************************************************)
\* the text begins with digits and a '.' that no digit follows, directly
\* or after whitespace
DotWithoutDigits(s) ==
    LET int == LeadingDigits(s)
        t == SubSeq(s, Len(int) + 1, Len(s))
    IN  /\ int # <<>>
        /\ t # <<>>
        /\ Head(t) = 46
        /\ LeadingDigits(SkipSpace(Tail(t))) = <<>>

\* C12: on digits followed by a '.' that no digits follow (after optional
\* whitespace), such as "3. Line", parse_measure reports no parse; it
\* yields no token for the shorter integer.
DotWithoutDigitsIsNoParse ==
    (call.op = "parse_measure" /\ DotWithoutDigits(input.input)) =>
        ret.kind = "error"

\* "3. Line" was tried and gave no parse
DotWithoutDigitsWitness ==
    /\ call.op = "parse_measure"
    /\ input.input = <<51, 46, 32, 76, 105, 110, 101>>
    /\ ret.kind = "error"

\* some numeric recognizer takes the whole of the text for the value
IsNumericLiteral(text, value) ==
    \/ LET r == parse_integer(ParserInput(text, 0))
       IN  r.kind = "ok" /\ r.rest.input = <<>> /\ r.val = value
    \/ LET r == parse_decimal(ParserInput(text, 0))
       IN  r.kind = "ok" /\ r.rest.input = <<>> /\ r.val = value
    \/ LET r == parse_rational(ParserInput(text, 0))
       IN  r.kind = "ok" /\ r.rest.input = <<>> /\ r.val = value

\* C16: a successful parse_measure at char offset p gives number_range
\* p..p+n for the n chars of the numeric literal, a unit_range that starts
\* after the optional whitespace and covers the unit word, raw equal to the
\* consumed text, of unit_range.end - p chars, and a remainder at char
\* offset unit_range.end; "1 (U+00BE) teaspoon" gives 0..3 and 4..12.
TokenRangesAreCharRanges ==
    (call.op = "parse_measure" /\ ret.kind = "ok") =>
        LET p == input.char_index
            tok == ret.val
            used == Len(input.input) - Len(ret.rest.input)
            n == tok.number_range.end - p
            w == tok.unit_range.start - p
        IN  /\ tok.raw = SubSeq(input.input, 1, used)
            /\ ret.rest.input = SubSeq(input.input, used + 1, Len(input.input))
            /\ ret.rest.char_index = tok.unit_range.end
            /\ tok.unit_range.end - p = Len(tok.raw)
            /\ tok.number_range.start = p
            /\ 0 < n /\ n <= w /\ w < used
            /\ IsNumericLiteral(SubSeq(tok.raw, 1, n), tok.measure.value)
            /\ \A k \in (n + 1)..w : tok.raw[k] \in Multispace
            /\ \A k \in (w + 1)..used : tok.raw[k] \in Alpha
            /\ (ret.rest.input # <<>> => Head(ret.rest.input) \notin Alpha)
            /\ tok.measure.unit = resolve_unit(SubSeq(tok.raw, w + 1, used))
            /\ (p = 0 /\ input.input
                  = <<49, 32, 190, 32, 116, 101, 97, 115, 112, 111, 111, 110,
                      32, 111, 116, 104, 101, 114>>)
                  => /\ tok.number_range = [start |-> 0, end |-> 3]
                     /\ tok.unit_range = [start |-> 4, end |-> 12]

\* a literal with a two-byte glyph was parsed at a cursor inside a document
TokenRangesWitness ==
    /\ call.op = "parse_measure"
    /\ input.char_index > 0
    /\ input.input = <<49, 32, 190, 32, 99, 117, 112, 115, 32, 120>>
    /\ ret.kind = "ok"
    /\ ret.val.unit_range.end = input.char_index + 8

(***************************************************************************)
(* parse_recipe: fold_many0 over "a measure, or else one char".  call.pc   *)
(* is the position in parse_recipe, cur the input of the next iteration    *)
(* and ret.tokens the tokens folded so far.                                *)
(***************************************************************************)
\* nom::bytes::complete::take(count) on a ParserInput
take(i, count) ==
    IF Len(i.input) < count THEN Error("Eof")
    ELSE Ok(take_split(i, ByteLen(SubSeq(i.input, 1, count)))[1],
            take_split(i, ByteLen(SubSeq(i.input, 1, count)))[2])

\* map(recognizer, f), given the recognizer's result and the mapped value
map(r, val) == IF r.kind # "ok" THEN r ELSE Ok(r.rest, val)

\* map(parse_measure, Some), given the result of parse_measure
some_token(r) == IF r.kind # "ok" THEN r ELSE Ok(r.rest, Some(r.val))

\* alt((map(parse_measure, Some), map(take(1usize), |_| None)))
measure_or_char(i) == alt(some_token(parse_measure(i)), map(take(i, 1), None))

\* the fold function putting a token in front of the earlier ones
push_tokenFront(tokens, token) ==
    IF token.some THEN <<token.v>> \o tokens ELSE tokens

\* the fold function of parse_recipe
push_token(tokens, token) == IF token.some THEN Append(tokens, token.v) ELSE tokens

\* the end of parse_recipe, given what fold_many0 returned
finish_recipe(doc, remainder, tokens) ==
    IF ByteLen(remainder.input) = 0
    THEN [kind |-> "ok", tokens |-> tokens, raw |-> doc.input]
    ELSE [kind |-> "panic", tokens |-> tokens]

\* one iteration of fold_many0 on the input i with the tokens folded so
\* far: the next input and tokens, or the end of parse_recipe
fold_many0_step(doc, i, tokens, r) ==
    CASE r.kind = "panic" ->
            [pc |-> "done", cur |-> i, ret |-> [kind |-> "panic", tokens |-> tokens]]
      [] r.kind = "error" ->
            [pc |-> "done", cur |-> i, ret |-> finish_recipe(doc, i, tokens)]
      [] r.kind = "ok" ->
            IF ByteLen(r.rest.input) = ByteLen(i.input)
            THEN [pc |-> "done", cur |-> i,
                  ret |-> [kind |-> "error", code |-> "Many0", tokens |-> tokens]]
            ELSE [pc |-> "fold", cur |-> r.rest,
                  ret |-> [kind |-> "running", tokens |-> push_token(tokens, r.val)]]

\* '1' 'c' ' ' '.'
RecipeAlphabet == {49, 99, 32, 46}

\*   2 c 1 T
\*   (2 1/3 cups)
\*   (U+00BD)2 cup
\*   1/0 c
\*   3. Line
\*   0.2000000000 c
\*   a 1000000000 3/4 c
\*   (U+00BD) c 1(U+00BE) T
RecipeLiterals ==
    {
     <<189, 32, 99, 32, 49, 190, 32, 84>>,
     <<50, 32, 99, 32, 49, 32, 84>>,
     <<40, 50, 32, 49, 47, 51, 32, 99, 117, 112, 115, 41>>,
     <<189, 50, 32, 99, 117, 112>>,
     <<49, 47, 48, 32, 99>>,
     <<51, 46, 32, 76, 105, 110, 101>>,
     <<48, 46, 50, 48, 48, 48, 48, 48, 48, 48, 48, 48, 32, 99>>,
     <<97, 32, 49, 48, 48, 48, 48, 48, 48, 48, 48, 48, 32, 51, 47, 52, 32, 99>>
    }

RecipeTexts == StringsOver(RecipeAlphabet, MaxText) \cup RecipeLiterals

InitRecipe ==
    /\ build \in Builds
    /\ input \in {ParserInput(s, 0) : s \in RecipeTexts}
    /\ call = Idle
    /\ ret = Idle
    /\ origin = Idle
    /\ cur = Idle
    /\ dims = {}
    /\ hops = 0
    /\ cmp = NoCmp

\* parse_recipe(input) up to the first iteration of fold_many0
ParseRecipe ==
    /\ call = Idle
    /\ call' = [op |-> "parse_recipe", pc |-> "fold"]
    /\ cur' = input
    /\ ret' = [kind |-> "running", tokens |-> <<>>]
    /\ UNCHANGED <<build, origin, dims, hops, cmp, input>>

\* one iteration of fold_many0, and the end of parse_recipe after the last
FoldStep ==
    /\ call.op = "parse_recipe"
    /\ call.pc = "fold"
    /\ LET next == fold_many0_step(input, cur, ret.tokens, measure_or_char(cur))
       IN  /\ call' = [op |-> "parse_recipe", pc |-> next.pc]
           /\ cur' = next.cur
           /\ ret' = next.ret
    /\ UNCHANGED <<build, origin, dims, hops, cmp, input>>

NextRecipe ==
    \/ ParseRecipe
    \/ FoldStep

SpecRecipe == InitRecipe /\ [][NextRecipe]_vars

\* C17: parse_recipe ends only by returning Ok with the whole text
\* consumed: no token attempt, failed or not, aborts the processing of
\* the document, and the abort for an unconsumed remainder is not reached.
RecipeConsumesDocument ==
    (call.op = "parse_recipe" /\ call.pc = "done") =>
        /\ ret.kind = "ok"
        /\ cur.input = <<>>
        /\ cur.char_index = Len(input.input)

(***************************************************************************)
(* Good values and the best measures of a magnitude.                       *)
(***************************************************************************)
\* COMMON_FRACTIONS of measure.rs
COMMON_FRACTIONS == <<Rat(1, 8), Rat(1, 3)>>

\* Ratio::is_integer
is_integer(r) == r.denom = 1

RECURSIVE any_fraction(_, _)
\* COMMON_FRACTIONS.iter().any(|fraction| (self.value / fraction).is_integer())
\* from fraction k on: a quotient that panics ends the search
any_fraction(value, k) ==
    IF k > Len(COMMON_FRACTIONS) THEN Returned(FALSE)
    ELSE LET quotient == RDiv(value, COMMON_FRACTIONS[k])
         IN  IF Panics(quotient) THEN Panic
             ELSE IF is_integer(quotient) THEN Returned(TRUE)
             ELSE any_fraction(value, k + 1)

\* SingleMeasure::is_good
is_good(m) ==
    IF m.value.numer = 0 THEN Returned(FALSE)
    ELSE IF is_integer(m.value) THEN Returned(TRUE)
    ELSE any_fraction(Rat(m.value.numer, m.value.denom), 1)

\* Magnitude::range
MagnitudeRange(from_base_value, to_base_value, dim) ==
    [kind |-> "range", from_base_value |-> from_base_value,
     to_base_value |-> to_base_value, dimension |-> dim]

\* Magnitude::best_measures: the Single arm is todo!(), which panics
best_measures(mag) ==
    IF mag.kind = "magnitude" THEN Panic ELSE Returned(<<>>)

\* the unit lists with the volume units from the largest to the smallest
unitsDescending(dim) ==
    CASE dim = "Volume" ->
            [i \in 1..Len(VolumeUnits) |->
                VolumeUnit(VolumeUnits[Len(VolumeUnits) + 1 - i])]
      [] dim = "Temperature" ->
            [i \in 1..Len(TemperatureUnits) |-> TemperatureUnit(TemperatureUnits[i])]
      [] dim = "Unitless" -> <<>>

\* DimensionLike::units
units(dim) ==
    CASE dim = "Volume" -> [i \in 1..Len(VolumeUnits) |-> VolumeUnit(VolumeUnits[i])]
      [] dim = "Temperature" ->
            [i \in 1..Len(TemperatureUnits) |-> TemperatureUnit(TemperatureUnits[i])]
      [] dim = "Unitless" -> <<>>

\* DimensionLike::common_units: the units of COMMON_UNITS
common_units(dim) ==
    CASE dim = "Volume" ->
            <<VolumeUnit("Teaspoon"), VolumeUnit("Tablespoon"), VolumeUnit("Cup")>>
      [] dim = "Temperature" -> <<>>
      [] dim = "Unitless" -> <<>>

\* Magnitude::best_measure: the first of best_measures; the scan for a
\* common main unit is commented out in the source
best_measure(mag) ==
    LET measures == best_measures(mag)
    IN  IF measures.kind = "panic" THEN Panic
        ELSE Returned(IF measures.val = <<>> THEN None ELSE Some(measures.val[1]))

(***************************************************************************)
(* is_good and best_measures applied to single measures: the values p/q    *)
(* with p up to MaxGood and q a denominator of GoodDenoms, and values at   *)
(* the edge of the 32-bit range.                                           *)
(***************************************************************************)
GoodDenoms == {1, 2, 3, 4, 5, 6, 7, 8, 16, 24}

GoodValues ==
    {Ratio(p, q) : p \in 0..MaxGood, q \in GoodDenoms}
      \cup {Ratio(268435457, 5), Ratio(300000000, 7), Ratio(268435455, 8)}

InitBest ==
    /\ build \in Builds
    /\ origin \in {SingleMeasure(x, u) : x \in GoodValues, u \in Units}
    /\ cur = Idle
    /\ dims = {}
    /\ hops = 0
    /\ cmp = NoCmp
    /\ input = Idle
    /\ call = Idle
    /\ ret = Idle

\* origin.is_good()
IsGood ==
    /\ call = Idle
    /\ call' = [op |-> "is_good"]
    /\ ret' = is_good(origin)
    /\ UNCHANGED <<build, origin, cur, dims, hops, cmp, input>>

\* origin.magnitude()
BestMagnitude ==
    /\ call = Idle
    /\ cur = Idle
    /\ cur' = magnitude(origin)
    /\ UNCHANGED <<build, origin, dims, hops, cmp, input, call, ret>>

\* cur.best_measures(), or Magnitude::range(..).best_measures() when
\* ranged, the range running from cur to cur
BestMeasures(ranged) ==
    /\ call = Idle
    /\ cur # Idle
    /\ cur.kind = "magnitude"
    /\ LET mag == IF ranged
                  THEN MagnitudeRange(cur.base_value, cur.base_value,
                                      cur.dimension)
                  ELSE cur
       IN  /\ call' = [op |-> "best_measures", mag |-> mag]
           /\ ret' = best_measures(mag)
    /\ UNCHANGED <<build, origin, cur, dims, hops, cmp, input>>

\* cur.best_measure(), or Magnitude::range(..).best_measure() when ranged
BestMeasure(ranged) ==
    /\ call = Idle
    /\ cur # Idle
    /\ cur.kind = "magnitude"
    /\ LET mag == IF ranged
                  THEN MagnitudeRange(cur.base_value, cur.base_value,
                                      cur.dimension)
                  ELSE cur
       IN  /\ call' = [op |-> "best_measure", mag |-> mag]
           /\ ret' = best_measure(mag)
    /\ UNCHANGED <<build, origin, cur, dims, hops, cmp, input>>

Dimensions == {"Volume", "Temperature", "Unitless"}

\* dim.units()
DimensionUnits(dim) ==
    /\ call = Idle
    /\ call' = [op |-> "units", dim |-> dim]
    /\ ret' = Returned(units(dim))
    /\ UNCHANGED <<build, origin, cur, dims, hops, cmp, input>>

NextBest ==
    \/ \E dim \in Dimensions : DimensionUnits(dim)
    \/ IsGood
    \/ BestMagnitude
    \/ \E ranged \in BOOLEAN : BestMeasures(ranged)
    \/ \E ranged \in BOOLEAN : BestMeasure(ranged)

SpecBest == InitBest /\ [][NextBest]_vars

(***************************************************************************)
(* Properties of is_good and best_measures.                                *)
(***************************************************************************)
\* a value in lowest terms is non-zero and whole, or a whole multiple of
\* 1/8 or 1/3: its denominator divides 8 or 3
GoodValue(v) ==
    /\ v.numer # 0
    /\ (v.denom = 1 \/ 8 % v.denom = 0 \/ 3 % v.denom = 0)

\* C18: is_good holds exactly when the value is non-zero and either whole
\* or a whole multiple of 1/8 or of 1/3; 1/8, 3/8 and 2/3 are good, 5/7 and
\* 0 are not.
IsGoodIsCommonFraction ==
    call.op = "is_good" =>
        /\ ret.kind = "ok"
        /\ ret.val = GoodValue(origin.value)
        /\ origin.value \in {Ratio(1, 8), Ratio(3, 8), Ratio(2, 3)} => ret.val
        /\ origin.value \in {Ratio(5, 7), Ratio(0, 1)} => ~ ret.val

\* the main unit of a candidate and its place among the units of its
\* dimension
MainUnit(c) == IF c.kind = "multi" THEN c.measures[1].unit ELSE c.unit

UnitPlace(unit) ==
    CHOOSE j \in 1..Len(units(dimension(unit))) : units(dimension(unit))[j] = unit

\* c is a candidate for the magnitude: a good single measure, or a whole
\* main part and a remainder in a smaller unit, both good; base-equal to it
IsCandidate(c, mag) ==
    IF c.kind = "single"
    THEN GoodValue(c.value) /\ magnitude(c) = mag
    ELSE /\ c.kind = "multi"
         /\ Len(c.measures) = 2
         /\ GoodValue(c.measures[1].value) /\ is_integer(c.measures[1].value)
         /\ GoodValue(c.measures[2].value)
         /\ dimension(c.measures[2].unit) = mag.dimension
         /\ UnitPlace(c.measures[2].unit) < UnitPlace(c.measures[1].unit)
         /\ Plain(RAdd(base_value(c.measures[1]), base_value(c.measures[2])))
               = mag.base_value

\* C19: for a single magnitude of a dimension with units, best_measures
\* returns candidates in order of increasing unit size, each a good single
\* measure or a two-part composite with both parts good, each base-equal
\* to the magnitude, with the single candidate of every unit whose value is
\* good.
BestMeasuresAreCandidates ==
    (/\ call.op = "best_measures"
     /\ call.mag.kind = "magnitude"
     /\ units(call.mag.dimension) # <<>>) =>
        /\ ret.kind = "ok"
        /\ \A k \in 1..Len(ret.val) :
              /\ dimension(MainUnit(ret.val[k])) = call.mag.dimension
              /\ IsCandidate(ret.val[k], call.mag)
        /\ \A k \in 1..(Len(ret.val) - 1) :
              UnitPlace(MainUnit(ret.val[k])) < UnitPlace(MainUnit(ret.val[k + 1]))
        /\ \A j \in 1..Len(units(call.mag.dimension)) :
              LET m == measure(call.mag, units(call.mag.dimension)[j])
              IN  (m.kind = "single" /\ GoodValue(m.value))
                      => \E k \in 1..Len(ret.val) : ret.val[k] = m

\* a candidate that is a whole number of a unit flagged common
CleanCommon(c) ==
    /\ c.kind = "single"
    /\ is_integer(c.value)
    /\ \E j \in 1..Len(common_units(dimension(c.unit))) :
          common_units(dimension(c.unit))[j] = c.unit

\* C20: best_measures returns its candidates with none in a smaller unit
\* than a candidate that is a whole number of a common unit: such a
\* candidate has nothing before it in the result.
NothingBelowCleanCommon ==
    (/\ call.op = "best_measures"
     /\ call.mag.kind = "magnitude"
     /\ units(call.mag.dimension) # <<>>) =>
        /\ ret.kind = "ok"
        /\ \A k \in 1..Len(ret.val) : CleanCommon(ret.val[k]) => k = 1

\* the unit is flagged common in its dimension
IsCommonUnit(unit) ==
    \E j \in 1..Len(common_units(dimension(unit))) :
        common_units(dimension(unit))[j] = unit

\* the candidate the scan from the largest unit downward stops at: the last
\* candidate with a common main unit, else the first candidate, else none
PreferredCandidate(candidates) ==
    LET common == {k \in 1..Len(candidates) : IsCommonUnit(MainUnit(candidates[k]))}
    IN  IF candidates = <<>> THEN None
        ELSE IF common = {} THEN Some(candidates[1])
        ELSE Some(candidates[CHOOSE k \in common : \A l \in common : l <= k])

\* C21: best_measure returns, of the candidates of best_measures scanned
\* from the largest unit downward, the first whose main unit is flagged
\* common, and the first (smallest-unit) candidate when none is.
BestMeasurePrefersCommon ==
    call.op = "best_measure" =>
        /\ ret.kind = "ok"
        /\ best_measures(call.mag).kind = "ok"
        /\ ret.val = PreferredCandidate(best_measures(call.mag).val)

\* C22: for a magnitude whose dimension defines no units, such as the one
\* of the bespoke unit "cloves", best_measures returns the empty list and
\* best_measure returns nothing; neither call aborts.
NoUnitsNoCandidates ==
    (/\ call.op \in {"best_measures", "best_measure"}
     /\ units(call.mag.dimension) = <<>>) =>
        /\ ret.kind = "ok"
        /\ call.op = "best_measures" => ret.val = <<>>
        /\ call.op = "best_measure" => ret.val = None

(***************************************************************************)
(* Multi and range measures.                                               *)
(***************************************************************************)
\* MultiMeasure { measures }
MultiMeasure(measures) == [kind |-> "multi", measures |-> measures]

\* one step of the fold of MultiMeasure::base_value: acc + m.base_value()
add_base_value(acc, m) ==
    IF acc.panic THEN acc
    ELSE After(acc, After(base_value(m), RAdd(acc, base_value(m))))

RECURSIVE fold_base_values(_, _, _)
\* .map(SingleMeasure::base_value).fold(acc, ops::Add::add) from measure k on
fold_base_values(measures, k, acc) ==
    IF k > Len(measures) THEN acc
    ELSE fold_base_values(measures, k + 1, add_base_value(acc, measures[k]))

\* MultiMeasure::base_value
multi_base_value(m) == fold_base_values(m.measures, 1, Rat(0, 1))

\* MeasureLike::magnitude for MultiMeasure: the dimension is the one of the
\* first measure, and an empty list panics
multi_magnitude(m) ==
    LET base == multi_base_value(m)
    IN  IF Panics(base) \/ m.measures = <<>> THEN Panicked
        ELSE MagnitudeSingle(Plain(base), dimension(m.measures[1].unit))

\* MeasureLike::magnitude for RangeMeasure: the dimension is the one of from
range_magnitude(m) ==
    IF Panics(base_value(m.from)) \/ Panics(base_value(m.to)) THEN Panicked
    ELSE MagnitudeRange(Plain(base_value(m.from)), Plain(base_value(m.to)),
                        dimension(m.from.unit))

(***************************************************************************)
(* The magnitudes of multi and range measures: the parts are single        *)
(* measures of a value of PartValues in a unit of PartUnits, a multi       *)
(* measure has MaxParts parts or less.                                     *)
(***************************************************************************)
MaxParts == 2

PartValues ==
    {Ratio(p, q) : p \in 1..MaxNumer, q \in {1, 3, 8}}
      \cup {Ratio(30000, 1), Ratio(1, 30000)}

PartUnits ==
    {VolumeUnit("Drop"), VolumeUnit("Teaspoon"), VolumeUnit("Cup"),
     VolumeUnit("Gallon"), TemperatureUnit("Fahrenheit"), Unitless("cloves")}

Parts == {SingleMeasure(x, u) : x \in PartValues, u \in PartUnits}

RECURSIVE PartLists(_)
PartLists(n) ==
    IF n = 0 THEN {<<>>}
    ELSE LET shorter == PartLists(n - 1)
         IN  shorter \cup {Append(l, m) : l \in {t \in shorter : Len(t) = n - 1},
                                          m \in Parts}

InitCompound ==
    /\ build \in Builds
    /\ origin \in {MultiMeasure(l) : l \in PartLists(MaxParts)}
                    \cup {RangeMeasure(from, to) : from \in Parts, to \in Parts}
    /\ cur = Idle
    /\ dims = {}
    /\ hops = 0
    /\ cmp = NoCmp
    /\ input = Idle
    /\ call = Idle
    /\ ret = Idle

\* origin.magnitude() of a multi measure
MultiMagnitude ==
    /\ call = Idle
    /\ origin.kind = "multi"
    /\ call' = [op |-> "magnitude"]
    /\ cur' = multi_magnitude(origin)
    /\ UNCHANGED <<build, origin, dims, hops, cmp, input, ret>>

\* origin.magnitude() of a range measure
RangeMagnitude ==
    /\ call = Idle
    /\ origin.kind = "range"
    /\ call' = [op |-> "magnitude"]
    /\ cur' = range_magnitude(origin)
    /\ UNCHANGED <<build, origin, dims, hops, cmp, input, ret>>

\* cur.measure(unit) of a range magnitude
RangeMeasureIn(unit) ==
    /\ call.op = "magnitude"
    /\ cur.kind = "range"
    /\ call' = [op |-> "measure", unit |-> unit]
    /\ ret' = measure(cur, unit)
    /\ UNCHANGED <<build, origin, cur, dims, hops, cmp, input>>

NextCompound ==
    \/ MultiMagnitude
    \/ RangeMagnitude
    \/ \E unit \in PartUnits : RangeMeasureIn(unit)

SpecCompound == InitCompound /\ [][NextCompound]_vars

(***************************************************************************)
(* Properties of the magnitudes of multi and range measures.               *)
(***************************************************************************)
RECURSIVE ExactBaseSum(_, _)
\* the sum of value * multiple(unit) over the first k measures, as a pair
\* of naturals <<numerator, denominator>>, not reduced
ExactBaseSum(measures, k) ==
    IF k = 0 THEN <<<<>>, <<1>>>>
    ELSE LET s == ExactBaseSum(measures, k - 1)
             m == measures[k]
         IN  <<BigAdd(BigMul(s[1], ToBig(m.value.denom)),
                      BigMul(BigMul(ToBig(m.value.numer), ToBig(multiple(m.unit).numer)),
                             s[2])),
               BigMul(s[2], ToBig(m.value.denom))>>

SharedDimension(measures) ==
    /\ measures # <<>>
    /\ \A k \in 1..Len(measures) :
          dimension(measures[k].unit) = dimension(measures[1].unit)

\* C23: the magnitude of a multi measure whose measures share a dimension
\* is a single magnitude of that dimension whose base value is the exact
\* sum of value * multiple(unit) over its measures.
MultiMagnitudeIsExactSum ==
    (/\ call.op = "magnitude"
     /\ origin.kind = "multi"
     /\ SharedDimension(origin.measures)) =>
        /\ cur.kind = "magnitude"
        /\ cur.dimension = dimension(origin.measures[1].unit)
        /\ cur.base_value.numer >= 0
        /\ cur.base_value.denom > 0
        /\ LET s == ExactBaseSum(origin.measures, Len(origin.measures))
           IN  BigMul(ToBig(cur.base_value.numer), s[2])
                  = BigMul(ToBig(cur.base_value.denom), s[1])

\* r = v * k exactly, for a non-negative value v and a positive integer k
IsExactMultiple(r, v, k) ==
    /\ r.numer >= 0
    /\ r.denom > 0
    /\ BigMul(ToBig(r.numer), ToBig(v.denom))
          = BigMul(BigMul(ToBig(v.numer), ToBig(k)), ToBig(r.denom))

\* C24: the magnitude of a range measure from a in U to b in V, U and V of
\* one dimension, is the range magnitude of that dimension from
\* a * multiple(U) to b * multiple(V), and that magnitude rendered in a unit
\* W is the range from from/multiple(W) to to/multiple(W), both in W.
RangeMagnitudeConvertsEndpoints ==
    (/\ call.op \in {"magnitude", "measure"}
     /\ origin.kind = "range"
     /\ dimension(origin.from.unit) = dimension(origin.to.unit)) =>
        /\ cur.kind = "range"
        /\ cur.dimension = dimension(origin.from.unit)
        /\ cur.dimension = dimension(origin.to.unit)
        /\ IsExactMultiple(cur.from_base_value, origin.from.value,
                           multiple(origin.from.unit).numer)
        /\ IsExactMultiple(cur.to_base_value, origin.to.value,
                           multiple(origin.to.unit).numer)
        /\ call.op = "measure" =>
              /\ ret.kind = "range"
              /\ ret.from.unit = call.unit
              /\ ret.to.unit = call.unit
              /\ IsExactMultiple(cur.from_base_value, ret.from.value,
                                 multiple(call.unit).numer)
              /\ IsExactMultiple(cur.to_base_value, ret.to.value,
                                 multiple(call.unit).numer)

(***************************************************************************)
(* Dimensions in conversions, and the order of the unit lists.             *)
(***************************************************************************)
\* C25: a conversion stays within one dimension: the measure returned by
\* m.measure(u) has the dimension of m, and its magnitude is m again.
ConversionStaysInDimension ==
    /\ Cardinality(dims) = 1
    /\ (hops = 1 /\ cur.kind = "magnitude" /\ magnitude(origin).kind = "magnitude")
          => cur = magnitude(origin)

\* a <= b for rationals with positive denominators
RatLeq(a, b) == a.numer * b.denom <= b.numer * a.denom

\* C26: in the unit list of every dimension the multiples never decrease
\* from one unit to the next (in the volume list they increase), and every
\* multiple is a positive rational.
UnitsAscendByMultiple ==
    call.op = "units" =>
        /\ ret.kind = "ok"
        /\ \A k \in 1..Len(ret.val) :
              /\ dimension(ret.val[k]) = call.dim
              /\ multiple(ret.val[k]).numer > 0
              /\ multiple(ret.val[k]).denom > 0
        /\ \A k \in 1..(Len(ret.val) - 1) :
              /\ RatLeq(multiple(ret.val[k]), multiple(ret.val[k + 1]))
              /\ call.dim = "Volume"
                    => ~ RatLeq(multiple(ret.val[k + 1]), multiple(ret.val[k]))

\* the ten volume units were listed, Drop first and Gallon last
UnitsAscendWitness ==
    /\ call.op = "units"
    /\ call.dim = "Volume"
    /\ ret.kind = "ok"
    /\ Len(ret.val) = 10
    /\ ret.val[1] = VolumeUnit("Drop")
    /\ ret.val[10] = VolumeUnit("Gallon")
    /\ multiple(ret.val[1]).numer < multiple(ret.val[10]).numer

(***************************************************************************)
(* Aliases shared by two units.                                            *)
(***************************************************************************)
\* C27: a word that equals an alias of more than one unit exactly resolves
\* to the unit that the scan over the table meets first, the volume units
\* coming before the temperature units: "c" and "C" are Cup, and a word
\* that resolves to Celsius is "celsius" in some case, never "C".
FirstExactAliasWins ==
    call.op = "parse_unit" =>
        /\ ExactPlaces(LeadingWord(input.input)) # {} =>
              /\ ret.kind = "ok"
              /\ \E p \in ExactPlaces(LeadingWord(input.input)) :
                    /\ \A q \in ExactPlaces(LeadingWord(input.input)) :
                          q = p \/ ScannedBefore(p, q)
                    /\ ret.val = UNITFUL_UNITS[p[1]]
        /\ LeadingWord(input.input) \in {<<99>>, <<67>>} =>
              (ret.kind = "ok" /\ ret.val = VolumeUnit("Cup"))
        /\ (ret.kind = "ok" /\ ret.val = TemperatureUnit("Celsius")) =>
              to_lowercase(LeadingWord(input.input))
                  = <<99, 101, 108, 115, 105, 117, 115>>

\* "C", an alias of Cup and of Celsius, resolved to Cup
FirstExactAliasWinsWitness ==
    /\ call.op = "parse_unit"
    /\ LeadingWord(input.input) = <<67>>
    /\ \E p \in ExactPlaces(<<67>>), q \in ExactPlaces(<<67>>) :
          /\ UNITFUL_UNITS[p[1]] = VolumeUnit("Cup")
          /\ UNITFUL_UNITS[q[1]] = TemperatureUnit("Celsius")
    /\ ret.kind = "ok"
    /\ ret.val = VolumeUnit("Cup")

(***************************************************************************)
(* The texts of a token.                                                   *)
(***************************************************************************)
\* C28: for a token returned by parse_measure, number_text() is the text
\* of the numeric literal and unit_text() the text of the unit word, the
\* chars of raw at the token's ranges; neither call aborts.
TokenTextsAreSlices ==
    /\ call.op = "number_text" =>
          /\ cur.kind = "ok"
          /\ cur.val = SubSeq(ret.val.raw, 1,
                              ret.val.number_range.end - ret.val.number_range.start)
          /\ IsNumericLiteral(cur.val, ret.val.measure.value)
    /\ call.op = "unit_text" =>
          /\ cur.kind = "ok"
          /\ cur.val = SubSeq(ret.val.raw,
                              (ret.val.unit_range.start - ret.val.number_range.start) + 1,
                              ret.val.unit_range.end - ret.val.number_range.start)
          /\ resolve_unit(cur.val) = ret.val.measure.unit

(***************************************************************************)
(* The tokens of a recipe.                                                 *)
(***************************************************************************)
\* C29: in the result of parse_recipe the tokens stand in document order
\* and do not overlap, each full range starting at or after the end of the
\* one before, and the raw text of a token is the document's chars at its
\* full range.
TokensInDocumentOrder ==
    (call.op = "parse_recipe" /\ call.pc = "done" /\ ret.kind = "ok") =>
        /\ \A k \in 1..Len(ret.tokens) :
              /\ 0 <= full_range(ret.tokens[k]).start
              /\ full_range(ret.tokens[k]).start < full_range(ret.tokens[k]).end
              /\ full_range(ret.tokens[k]).end <= Len(input.input)
              /\ ret.tokens[k].raw
                    = SubSeq(input.input, full_range(ret.tokens[k]).start + 1,
                             full_range(ret.tokens[k]).end)
        /\ \A k \in 1..(Len(ret.tokens) - 1) :
              full_range(ret.tokens[k]).end <= full_range(ret.tokens[k + 1]).start

\* "(U+00BD) c 1(U+00BE) T" gave two tokens, at chars 0..3 and 4..8
TokensInDocumentOrderWitness ==
    /\ call.op = "parse_recipe"
    /\ call.pc = "done"
    /\ ret.kind = "ok"
    /\ input.input = <<189, 32, 99, 32, 49, 190, 32, 84>>
    /\ Len(ret.tokens) = 2
    /\ full_range(ret.tokens[1]) = [start |-> 0, end |-> 3]
    /\ full_range(ret.tokens[2]) = [start |-> 4, end |-> 8]

(***************************************************************************)
(* The cursor operations of ParserInput applied to bounded strings at a    *)
(* cursor of MaxCursor chars or less: offsets and ranges are in bytes, and *)
(* cutting a str off a char boundary panics.                               *)
(***************************************************************************)
\* InputTake::take for ParserInput
input_take(i, count) == ParserInput(ByteSlice(i.input, 0, count).v, i.char_index)

\* Slice<Range<usize>> for ParserInput: the char index advances by the
\* byte offset of the start of the range
SliceRange(i, start, end) ==
    ParserInput(ByteSlice(i.input, start, end).v, i.char_index + start)

InitCursor ==
    /\ build \in Builds
    /\ input \in {ParserInput(s, p) : s \in CharStrings, p \in 0..MaxCursor}
    /\ call = Idle
    /\ ret = Idle
    /\ origin = Idle
    /\ cur = Idle
    /\ dims = {}
    /\ hops = 0
    /\ cmp = NoCmp

\* input.take(count)
Take(count) ==
    /\ call = Idle
    /\ call' = [op |-> "take", count |-> count]
    /\ ret' = IF ByteSlice(input.input, 0, count).panic THEN Panic
              ELSE Returned(<<[start |-> 0, end |-> count,
                               input |-> input_take(input, count)]>>)
    /\ UNCHANGED <<build, origin, cur, dims, hops, cmp, input>>

\* input.take_split(count): the suffix and the prefix
TakeSplit(count) ==
    /\ call = Idle
    /\ call' = [op |-> "take_split", count |-> count]
    /\ ret' = IF ByteSlice(input.input, 0, count).panic THEN Panic
              ELSE Returned(<<[start |-> count, end |-> ByteLen(input.input),
                               input |-> take_split(input, count)[1]],
                              [start |-> 0, end |-> count,
                               input |-> take_split(input, count)[2]]>>)
    /\ UNCHANGED <<build, origin, cur, dims, hops, cmp, input>>

\* input.slice(start..end)
Slice(start, end) ==
    /\ call = Idle
    /\ call' = [op |-> "slice", start |-> start, end |-> end]
    /\ ret' = IF ByteSlice(input.input, start, end).panic THEN Panic
              ELSE Returned(<<[start |-> start, end |-> end,
                               input |-> SliceRange(input, start, end)]>>)
    /\ UNCHANGED <<build, origin, cur, dims, hops, cmp, input>>

\* input.slice(start..)
SliceFromStart(start) ==
    /\ call = Idle
    /\ call' = [op |-> "slice_from", start |-> start]
    /\ ret' = IF ByteSlice(input.input, start, ByteLen(input.input)).panic THEN Panic
              ELSE Returned(<<[start |-> start, end |-> ByteLen(input.input),
                               input |-> SliceFrom(input, start)]>>)
    /\ UNCHANGED <<build, origin, cur, dims, hops, cmp, input>>

\* input.slice(..end)
SliceToEnd(end) ==
    /\ call = Idle
    /\ call' = [op |-> "slice_to", end |-> end]
    /\ ret' = IF ByteSlice(input.input, 0, end).panic THEN Panic
              ELSE Returned(<<[start |-> 0, end |-> end,
                               input |-> SliceTo(input, end)]>>)
    /\ UNCHANGED <<build, origin, cur, dims, hops, cmp, input>>

NextCursor ==
    \/ \E count \in 0..(4 * MaxLen + 1) : Take(count)
    \/ \E count \in 0..(4 * MaxLen + 1) : TakeSplit(count)
    \/ \E start \in 0..(4 * MaxLen + 1), end \in 0..(4 * MaxLen + 1) :
          Slice(start, end)
    \/ \E start \in 0..(4 * MaxLen + 1) : SliceFromStart(start)
    \/ \E end \in 0..(4 * MaxLen + 1) : SliceToEnd(end)

SpecCursor == InitCursor /\ [][NextCursor]_vars

\* the number of chars of s that begin before byte offset b
CharsBefore(s, b) ==
    Cardinality({i \in 1..Len(s) : char_indices(s)[i] < b})

\* C30: a ParserInput derived from a cursor by take, take_split or a slice
\* (a..b, a.., ..b) holds the bytes of the parent it was cut from, and its
\* char_index is the parent's char_index plus the number of chars of the
\* parent that precede it, multi-byte chars included.
DerivedCursorCountsChars ==
    (call.op \in {"take", "take_split", "slice", "slice_from", "slice_to"}
        /\ ret.kind = "ok") =>
        \A k \in 1..Len(ret.val) :
            /\ ret.val[k].input.input
                  = ByteSlice(input.input, ret.val[k].start, ret.val[k].end).v
            /\ ret.val[k].input.char_index
                  = input.char_index + CharsBefore(input.input, ret.val[k].start)

====
